---- MODULE Spec2Model ----
(***************************************************************************)
(* State-machine model of the RenderingFarm job lifecycle engine:          *)
(* the directory-backed job store (inbox, processing, done and failed      *)
(* archives), the queue view, the external request handlers of app.py,     *)
(* the worker loop of worker.py with its child process, the shared status  *)
(* object of context.py, and the startup recovery pass of jobs.py.         *)
(***************************************************************************)
EXTENDS Integers, Sequences, FiniteSets, TLC

\* ------------------------------------------------------------------ bounds
\* Job ids handed out by make_job_id over one behaviour of the lifecycle
\* specification (Spec), of the queue specification (SpecQueue) and of the
\* retry specification (SpecRetry).
MaxJobs == 2
MaxQueueJobs == 3
MaxRetryJobs == 4
\* Uploads in one behaviour of the retry specification.
MaxRetryUploads == 1
\* Largest reading of the wall clock.
MaxClock == 1
\* Process crashes in one behaviour.
MaxCrashes == 1
\* Longest "order" list of a reorder request.
MaxOrderLen == 2
\* Requests taken in two steps (read, then write_json) in one behaviour.
MaxRequests == 1

\* ------------------------------------------------------------- data model
None == 0 - 1
\* A key that was never written (returncode before finalize_job).
Unset == 0 - 2
\* The largest id any specification hands out.
IdCap == IF MaxRetryJobs >= MaxQueueJobs /\ MaxRetryJobs >= MaxJobs THEN MaxRetryJobs
         ELSE IF MaxQueueJobs >= MaxJobs THEN MaxQueueJobs ELSE MaxJobs
\* float("inf") of the sort keys.
Inf == 1000 * (IdCap + MaxClock + 1)
Ids == 1..IdCap
\* Directory names of the failed archive: <id>, and -id for recovery-broken-<id>.
FailedDirs == Ids \cup {0 - d : d \in Ids}
\* Stored file names of the inbox: name 0 is the declared original name, the
\* others are the disambiguated variants unique_filename can hand out.
Names == 0..(IdCap + 1)
INPUT_JOB_STATES == {"PENDING", "QUEUED"}

\* now_ms(): epoch milliseconds, far above every queue index.
now_ms(t) == 2 * IdCap + 1 + t

\* A sidecar that does not exist (read_json gives {}).
NoMeta ==
  [id |-> 0, state |-> "ABSENT", mode |-> "TURBO", created_at |-> None,
   queued_at |-> None, queue_priority |-> None, attempt |-> 0, root_id |-> 0,
   retry_of |-> 0, auto_retry_of |-> 0, auto_retry_done |-> FALSE,
   override_off |-> FALSE, hiprt_used |-> FALSE, stored_filename |-> None,
   returncode |-> Unset, reason |-> [text |-> "", rc |-> Unset], note |-> ""]

NoFile == [blend |-> FALSE, mtime |-> None, meta |-> NoMeta]

VARIABLES
  inbox,      \* UPLOAD_DIR: name -> [blend, mtime, meta]
  proc,       \* PROCESSING_DIR: directory name (a job id) -> [dir, blend, mtime, meta]
  done,       \* OUTPUT_DIR: directory name -> [dir, blend, mtime, meta]
  failed,     \* FAILED_DIR: directory name -> [dir, blend, mtime, meta]; the
              \* name -d stands for recovery-broken-<d>
  cur,        \* context.current_job: [status, id, filename, progress];
              \* progress stands for the progress, sample, tile, frame and
              \* remaining fields: 0 when they are reset, else the id of the
              \* job whose output lines they were parsed from
  stop_event, \* context.stop_event
  active_process, \* context.active_process: is the handle non-null
  child,      \* the external render process: [st, rc, term]
  wpc,        \* position of the worker thread ("boot" before recovery)
  w,          \* locals of worker_loop: [id, filename, mode, rc, state, retry,
              \* reason, exc]
  cpc,        \* position of the cancel request in flight
  cjob,       \* job id the cancel request read from its snapshot
  accepted,   \* ids of the jobs whose cancel request returned ok
  nextId,     \* make_job_id: next fresh id
  now,        \* wall clock
  crashes,    \* number of crashes so far
  upl,        \* the upload request in flight: [pc, name, mode]
  parsed,     \* the output line the worker is parsing: [pc, line, payload]
  tree,       \* the archived job directory a delete-images request works on
  req,        \* the request between its read and its write_json: [op, writes,
              \* served]; served counts the two-step requests so far
  lastOp      \* the operation that produced this state

vars == <<inbox, proc, done, failed, cur, stop_event, active_process,
          child, wpc, w, cpc, cjob, accepted, nextId, now, crashes, upl,
          parsed, tree, req, lastOp>>

NoDir == [dir |-> FALSE, blend |-> FALSE, mtime |-> None, meta |-> NoMeta]
IdleJob == [status |-> "IDLE", id |-> 0, filename |-> None, progress |-> 0]
NoUpload == [pc |-> "idle", name |-> None, mode |-> "TURBO"]
NoRequest == [op |-> "none", writes |-> [n \in Names |-> NoMeta], served |-> 0]
NoChild == [st |-> "none", rc |-> 0, term |-> FALSE]
NoLocals == [id |-> 0, filename |-> None, mode |-> "TURBO", rc |-> None,
             state |-> "NONE", retry |-> 0,
             reason |-> [text |-> "Blender Fehler", rc |-> Unset], exc |-> FALSE]
Other == [op |-> "other"]

\* ------------------------------------------------------------- queue view
Lex(a, b) == a[1] < b[1] \/ (a[1] = b[1] /\ a[2] < b[2])

\* The inbox's .blend files in get_queue's order: by mtime, files of equal
\* mtime in directory order (here: by name).
BlendNames(inb) == {n \in Names : inb[n].blend}
ByMtime(inb) ==
  LET S == BlendNames(inb)
      K(n) == <<inb[n].mtime, n>>
      Rank(n) == Cardinality({m \in S : Lex(K(m), K(n))})
  IN [r \in 1..Cardinality(S) |-> CHOOSE n \in S : Rank(n) = r - 1]

\* str.upper() on the state values a sidecar may carry.
upper(state) ==
  CASE state = "pending" -> "PENDING"
    [] state = "queued" -> "QUEUED"
    [] state = "Queued" -> "QUEUED"
    [] state = "done" -> "DONE"
    [] OTHER -> state

\* Faulty variant of ensure_queue_sidecar: a stored state is kept as it is,
\* whatever it says.
ensure_queue_sidecar_keeps_state(meta, name, fresh, t) ==
  LET id == IF meta.id = 0 THEN fresh ELSE meta.id
      current_state == IF meta.state \in {"ABSENT", ""} THEN "NONE" ELSE upper(meta.state)
  IN [meta EXCEPT
        !.id = id,
        !.root_id = IF meta.root_id = 0 THEN id ELSE meta.root_id,
        !.attempt = IF meta.attempt = 0 THEN 1 ELSE meta.attempt,
        !.stored_filename = name,
        !.created_at = IF meta.created_at = None THEN t ELSE meta.created_at,
        !.state = IF current_state = "NONE" THEN "PENDING" ELSE current_state,
        !.queue_priority = IF current_state = "QUEUED" /\ meta.queue_priority = None
                           THEN now_ms(t) ELSE meta.queue_priority]

\* ensure_queue_sidecar: the sidecar of blend `name` after reconciliation;
\* `fresh` is the id make_job_id would give, `t` the clock.
ensure_queue_sidecar(meta, name, fresh, t) ==
  LET id == IF meta.id = 0 THEN fresh ELSE meta.id
      current_state == IF upper(meta.state) \in INPUT_JOB_STATES
                       THEN upper(meta.state) ELSE "NONE"
  IN [meta EXCEPT
        !.id = id,
        !.root_id = IF meta.root_id = 0 THEN id ELSE meta.root_id,
        !.attempt = IF meta.attempt = 0 THEN 1 ELSE meta.attempt,
        !.stored_filename = name,
        !.created_at = IF meta.created_at = None THEN t ELSE meta.created_at,
        !.state = IF current_state = "NONE" THEN "PENDING" ELSE current_state,
        !.queue_priority = IF current_state = "QUEUED" /\ meta.queue_priority = None
                           THEN now_ms(t) ELSE meta.queue_priority]

\* get_queue's loop: every inbox blend's sidecar reconciled and written back;
\* a blend without sidecar gets the next fresh id, in listing order.
Reconcile(inb, names, nid, t) ==
  LET Pos(n) == CHOOSE i \in 1..Len(names) : names[i] = n
      Fresh(n) == nid + Cardinality({i \in 1..(Pos(n) - 1) : inb[names[i]].meta.id = 0})
  IN [n \in Names |->
        IF inb[n].blend
        THEN [inb[n] EXCEPT !.meta = ensure_queue_sidecar(inb[n].meta, n, Fresh(n), t)]
        ELSE inb[n]]

\* get_queue: reconciles every inbox blend (the repaired sidecars are written
\* back) and lists them in mtime order. [inbox, nextId, items]
get_queue(inb, nid, t) ==
  LET names == ByMtime(inb)
  IN [inbox |-> Reconcile(inb, names, nid, t),
      nextId |-> nid + Cardinality({n \in BlendNames(inb) : inb[n].meta.id = 0}),
      items |-> names]

\* The sort key of get_render_queue and move_queue_job.
QueueKey(m) ==
  <<IF m.queue_priority # None THEN m.queue_priority ELSE Inf,
    IF m.queued_at # None THEN m.queued_at ELSE m.created_at>>

\* list.sort(key=...) of a sequence of names: stable.
StableSort(inb, s) ==
  LET K(i) == QueueKey(inb[s[i]].meta)
      Rank(i) == Cardinality({j \in 1..Len(s) :
                    Lex(K(j), K(i)) \/ (K(j) = K(i) /\ j < i)})
  IN [r \in 1..Len(s) |-> s[CHOOSE i \in 1..Len(s) : Rank(i) = r - 1]]

FilterState(inb, s, st) == SelectSeq(s, LAMBDA n : inb[n].meta.state = st)

\* Faulty variant of get_render_queue: the sort is left out.
get_render_queue_unsorted(inb) == FilterState(inb, ByMtime(inb), "QUEUED")

\* get_render_queue on an inbox that get_queue has reconciled: the names of
\* the QUEUED records in scheduling order.
get_render_queue(inb) == StableSort(inb, FilterState(inb, ByMtime(inb), "QUEUED"))

\* find_input_job: the first inbox entry of that id in get_queue's order.
HasJob(inb, id) == \E n \in BlendNames(inb) : inb[n].meta.id = id
find_input_job(inb, id) ==
  LET s == ByMtime(inb)
  IN s[CHOOSE i \in 1..Len(s) :
         /\ inb[s[i]].meta.id = id
         /\ \A j \in 1..(i - 1) : inb[s[j]].meta.id # id]

IdsOf(inb, s) == [i \in 1..Len(s) |-> inb[s[i]].meta.id]

\* unique_filename: the name itself when no inbox blend has it and the job
\* being rendered does not use it, else a disambiguated name that is free.
NameFree(inb, c) ==
  /\ ~inb[c].blend
  /\ ~(cur.status = "RENDERING" /\ cur.filename = c)
unique_filename(inb, name) ==
  IF NameFree(inb, name) THEN name
  ELSE CHOOSE c \in Names :
         /\ NameFree(inb, c)
         /\ \A d \in Names : NameFree(inb, d) => c <= d

\* ------------------------------------------------------ external requests
\* Faulty variant of Booted: requests are served before startup has finished.
BootedAlways == TRUE

\* Requests are served (app.run) only after the module-level startup code.
Booted == wpc # "boot"

WorkerUnchanged == UNCHANGED <<proc, done, failed, cur, stop_event,
                               active_process, child, wpc, w>>
CancelUnchanged == UNCHANGED <<cpc, cjob, accepted>>

\* The clock advances.
Tick ==
  /\ now < MaxClock
  /\ now' = now + 1
  /\ lastOp' = Other
  /\ UNCHANGED <<inbox, nextId, crashes, parsed, tree, req, upl>>
  /\ WorkerUnchanged /\ CancelUnchanged

\* POST /upload with an allowed file name (`limit` caps the ids handed out).
upload(raw_name, mode, limit) ==
  /\ Booted
  /\ nextId <= limit
  /\ LET stored_name == unique_filename(inbox, raw_name)
         metadata == [NoMeta EXCEPT !.id = nextId, !.state = "PENDING",
                        !.mode = mode, !.created_at = now,
                        !.stored_filename = stored_name]
     IN inbox' = [inbox EXCEPT ![stored_name] =
                     [blend |-> TRUE, mtime |-> now, meta |-> metadata]]
  /\ nextId' = nextId + 1
  /\ lastOp' = Other
  /\ UNCHANGED <<now, crashes, parsed, tree, req, upl>>
  /\ WorkerUnchanged /\ CancelUnchanged

\* The upload request step by step, as the worker and the other requests see
\* it.  First step: unique_filename and file.save; the sidecar that may lie
\* under that name is not touched.
upload_save(raw_name, mode, limit) ==
  /\ Booted
  /\ upl.pc = "idle"
  /\ nextId <= limit
  /\ LET stored_name == unique_filename(inbox, raw_name)
     IN /\ inbox' = [inbox EXCEPT ![stored_name].blend = TRUE,
                                  ![stored_name].mtime = now]
        /\ upl' = [pc |-> "write", name |-> stored_name, mode |-> mode]
  /\ lastOp' = Other
  /\ UNCHANGED <<nextId, now, crashes, parsed, tree, req>>
  /\ WorkerUnchanged /\ CancelUnchanged

\* The upload request with unique_filename and file.save apart.  First step:
\* stored_name = unique_filename(raw_name).
upload_name(raw_name, mode, limit) ==
  /\ Booted
  /\ upl.pc = "idle"
  /\ nextId <= limit
  /\ upl' = [pc |-> "save", name |-> unique_filename(inbox, raw_name), mode |-> mode]
  /\ lastOp' = Other
  /\ UNCHANGED <<inbox, nextId, now, crashes, parsed, tree, req>>
  /\ WorkerUnchanged /\ CancelUnchanged

\* file.save(blend_path) under the name chosen before; a file of that name
\* is replaced.
upload_file_save ==
  /\ upl.pc = "save"
  /\ inbox' = [inbox EXCEPT ![upl.name].blend = TRUE, ![upl.name].mtime = now]
  /\ upl' = [upl EXCEPT !.pc = "write"]
  /\ lastOp' = Other
  /\ UNCHANGED <<nextId, now, crashes, parsed, tree, req>>
  /\ WorkerUnchanged /\ CancelUnchanged

\* Second step: make_job_id, write_json of the PENDING sidecar, return ok.
upload_write ==
  /\ upl.pc = "write"
  /\ inbox' = [inbox EXCEPT ![upl.name].meta =
                  [NoMeta EXCEPT !.id = nextId, !.state = "PENDING",
                                 !.mode = upl.mode, !.created_at = now,
                                 !.stored_filename = upl.name]]
  /\ nextId' = nextId + 1
  /\ upl' = NoUpload
  /\ lastOp' = Other
  /\ UNCHANGED <<now, crashes, parsed, tree, req>>
  /\ WorkerUnchanged /\ CancelUnchanged

\* POST /jobs/<id>/start on a PENDING inbox job (raw_mode "" : no mode given).
start_job(job_id, raw_mode) ==
  /\ Booted
  /\ ~(cur.status = "RENDERING" /\ cur.id = job_id)
  /\ \E q \in {get_queue(inbox, nextId, now)} :
        /\ HasJob(q.inbox, job_id)
        /\ LET n == find_input_job(q.inbox, job_id)
               metadata == q.inbox[n].meta
           IN /\ metadata.state = "PENDING"
              /\ inbox' = [q.inbox EXCEPT ![n].meta =
                   [metadata EXCEPT
                      !.mode = IF raw_mode # "" THEN raw_mode ELSE metadata.mode,
                      !.state = "QUEUED",
                      !.queued_at = now,
                      !.queue_priority = IF metadata.queue_priority = None
                                         THEN now_ms(now)
                                         ELSE metadata.queue_priority]]
        /\ nextId' = q.nextId
  /\ lastOp' = Other
  /\ UNCHANGED <<now, crashes, parsed, tree, req, upl>>
  /\ WorkerUnchanged /\ CancelUnchanged

Max(S) == CHOOSE x \in S : \A y \in S : y <= x

\* start_all_jobs' loop: the PENDING items, in get_queue's order, become
\* QUEUED with the priorities max_priority + 1, + 2, ...
StartAll(inb, names, max_priority, t) ==
  LET Pending(n) == inb[n].blend /\ inb[n].meta.state = "PENDING"
      Pos(n) == CHOOSE i \in 1..Len(names) : names[i] = n
      Nth(n) == Cardinality({i \in 1..Pos(n) : Pending(names[i])})
  IN [n \in Names |->
        IF Pending(n)
        THEN [inb[n] EXCEPT !.meta.state = "QUEUED",
                            !.meta.queued_at = t,
                            !.meta.queue_priority = max_priority + Nth(n)]
        ELSE inb[n]]

\* max((item.get("queue_priority") or 0 for item in queued), default=0)
MaxPriority(inb) ==
  Max({0} \cup {IF inb[n].meta.queue_priority = None THEN 0
                ELSE inb[n].meta.queue_priority :
                n \in {x \in BlendNames(inb) : inb[x].meta.state = "QUEUED"}})

\* POST /queue/start-all.
start_all_jobs ==
  /\ Booted
  /\ \E q \in {get_queue(inbox, nextId, now)} :
        /\ inbox' = StartAll(q.inbox, q.items, MaxPriority(q.inbox), now)
        /\ nextId' = q.nextId
  /\ lastOp' = [op |-> "start_all"]
  /\ UNCHANGED <<now, crashes, parsed, tree, req, upl>>
  /\ WorkerUnchanged /\ CancelUnchanged

\* queued.pop(idx); queued.insert(target, item)
MoveTo(s, idx, target) ==
  LET rest == [i \in 1..(Len(s) - 1) |-> IF i < idx THEN s[i] ELSE s[i + 1]]
  IN [i \in 1..Len(s) |->
        IF i < target THEN rest[i]
        ELSE IF i = target THEN s[idx]
        ELSE rest[i - 1]]

IndexOf(s, x) == CHOOSE i \in 1..Len(s) : s[i] = x
InSeq(s, x) == \E i \in 1..Len(s) : s[i] = x

\* Faulty variant of Renumber: the numbering starts at 1.
RenumberFromOne(inb, s) ==
  [n \in Names |->
     IF InSeq(s, n)
     THEN [inb[n] EXCEPT !.meta.queue_priority = IndexOf(s, n)]
     ELSE inb[n]]

\* for order, entry in enumerate(...): queue_priority = order; write_json
Renumber(inb, s) ==
  [n \in Names |->
     IF InSeq(s, n)
     THEN [inb[n] EXCEPT !.meta.queue_priority = IndexOf(s, n) - 1]
     ELSE inb[n]]

Directions == {"up", "down", "top"}

\* move_queue_job's target index (1-based here).
MoveTarget(direction, idx, len) ==
  CASE direction = "up" -> IF idx - 1 < 1 THEN 1 ELSE idx - 1
    [] direction = "down" -> IF idx + 1 > len THEN len ELSE idx + 1
    [] OTHER -> 1

\* The queue move_queue_job writes back: the QUEUED names with job_id moved.
MovedQueue(inb, job_id, direction) ==
  LET queued == get_render_queue(inb)
      idx == IndexOf(IdsOf(inb, queued), job_id)
      target == MoveTarget(direction, idx, Len(queued))
  IN IF idx # target THEN MoveTo(queued, idx, target) ELSE queued

\* POST /jobs/<id>/queue/move with a valid direction, job in the queue.
move_queue_job(job_id, direction) ==
  /\ Booted
  /\ \E q \in {get_queue(inbox, nextId, now)} :
        /\ \E n \in BlendNames(q.inbox) :
              q.inbox[n].meta.id = job_id /\ q.inbox[n].meta.state = "QUEUED"
        /\ \E moved \in {MovedQueue(q.inbox, job_id, direction)} :
              inbox' = Renumber(q.inbox, moved)
        /\ nextId' = q.nextId
        /\ lastOp' = [op |-> "move", id |-> job_id, direction |-> direction,
                      before |-> IdsOf(q.inbox, get_render_queue(q.inbox))]
  /\ UNCHANGED <<now, crashes, parsed, tree, req, upl>>
  /\ WorkerUnchanged /\ CancelUnchanged

\* The "order" lists of a reorder request: non-empty lists of ids, known or
\* not, repeats allowed.
Orders(ids) == UNION {[1..k -> ids] : k \in 1..MaxOrderLen}

\* reorder_queue's normalized list: the listed known ids, each once, in the
\* order given, then the unlisted items in get_queue's order.
Normalized(order, item_ids) ==
  LET Known(j) == InSeq(item_ids, j)
      First(i) == Known(order[i]) /\ \A k \in 1..(i - 1) : order[k] # order[i]
      listed == SelectSeq([i \in 1..Len(order) |-> IF First(i) THEN order[i] ELSE 0],
                          LAMBDA j : j # 0)
  IN listed \o SelectSeq(item_ids, LAMBDA j : ~InSeq(listed, j))

\* POST /queue/reorder with a non-empty list.
reorder_queue(order) ==
  /\ Booted
  /\ \E q \in {get_queue(inbox, nextId, now)} :
        /\ \E normalized \in {Normalized(order, IdsOf(q.inbox, q.items))} :
              inbox' = Renumber(q.inbox,
                         [i \in 1..Len(normalized) |->
                            find_input_job(q.inbox, normalized[i])])
        /\ nextId' = q.nextId
  /\ lastOp' = [op |-> "reorder"]
  /\ UNCHANGED <<now, crashes, parsed, tree, req, upl>>
  /\ WorkerUnchanged /\ CancelUnchanged

\* The requests that read a sidecar, change it in memory and write it back,
\* as the worker and the other requests see them: first the handler up to
\* its write_json (get_queue's repairs included), then the write.
\* One sidecar to write: json_path of inbox blend n.
OneWrite(n, metadata) == [m \in Names |-> IF m = n THEN metadata ELSE NoMeta]

\* POST /jobs/<id>/mode up to write_json.
set_job_mode_read(job_id, mode) ==
  /\ Booted
  /\ req.op = "none"
  /\ req.served < MaxRequests
  /\ \E q \in {get_queue(inbox, nextId, now)} :
        /\ HasJob(q.inbox, job_id)
        /\ LET n == find_input_job(q.inbox, job_id)
           IN req' = [op |-> "mode", served |-> req.served + 1,
                      writes |-> OneWrite(n, [q.inbox[n].meta EXCEPT !.mode = mode])]
        /\ inbox' = q.inbox
        /\ nextId' = q.nextId
  /\ lastOp' = Other
  /\ UNCHANGED <<now, crashes, parsed, tree, upl>>
  /\ WorkerUnchanged /\ CancelUnchanged

\* POST /jobs/<id>/note up to write_json.
set_job_note_read(job_id, note) ==
  /\ Booted
  /\ req.op = "none"
  /\ req.served < MaxRequests
  /\ \E q \in {get_queue(inbox, nextId, now)} :
        /\ HasJob(q.inbox, job_id)
        /\ LET n == find_input_job(q.inbox, job_id)
           IN req' = [op |-> "note", served |-> req.served + 1,
                      writes |-> OneWrite(n, [q.inbox[n].meta EXCEPT !.note = note])]
        /\ inbox' = q.inbox
        /\ nextId' = q.nextId
  /\ lastOp' = Other
  /\ UNCHANGED <<now, crashes, parsed, tree, upl>>
  /\ WorkerUnchanged /\ CancelUnchanged

\* POST /jobs/<id>/start on a PENDING inbox job, up to write_json.
start_job_read(job_id, raw_mode) ==
  /\ Booted
  /\ req.op = "none"
  /\ req.served < MaxRequests
  /\ ~(cur.status = "RENDERING" /\ cur.id = job_id)
  /\ \E q \in {get_queue(inbox, nextId, now)} :
        /\ HasJob(q.inbox, job_id)
        /\ LET n == find_input_job(q.inbox, job_id)
               metadata == q.inbox[n].meta
           IN /\ metadata.state = "PENDING"
              /\ req' = [op |-> "start", served |-> req.served + 1,
                         writes |-> OneWrite(n,
                           [metadata EXCEPT
                              !.mode = IF raw_mode # "" THEN raw_mode ELSE metadata.mode,
                              !.state = "QUEUED",
                              !.queued_at = now,
                              !.queue_priority = IF metadata.queue_priority = None
                                                 THEN now_ms(now)
                                                 ELSE metadata.queue_priority])]
        /\ inbox' = q.inbox
        /\ nextId' = q.nextId
  /\ lastOp' = Other
  /\ UNCHANGED <<now, crashes, parsed, tree, upl>>
  /\ WorkerUnchanged /\ CancelUnchanged

\* POST /jobs/<id>/queue/move up to the loop of write_json calls: every
\* QUEUED sidecar was read and is renumbered in memory.
move_queue_job_read(job_id, direction) ==
  /\ Booted
  /\ req.op = "none"
  /\ req.served < MaxRequests
  /\ \E q \in {get_queue(inbox, nextId, now)} :
        /\ \E n \in BlendNames(q.inbox) :
              q.inbox[n].meta.id = job_id /\ q.inbox[n].meta.state = "QUEUED"
        /\ \E moved \in {MovedQueue(q.inbox, job_id, direction)} :
              req' = [op |-> "move", served |-> req.served + 1,
                      writes |-> [n \in Names |->
                                    IF InSeq(moved, n)
                                    THEN Renumber(q.inbox, moved)[n].meta
                                    ELSE NoMeta]]
        /\ inbox' = q.inbox
        /\ nextId' = q.nextId
  /\ lastOp' = Other
  /\ UNCHANGED <<now, crashes, parsed, tree, upl>>
  /\ WorkerUnchanged /\ CancelUnchanged

\* A queue read (status poll, worker poll) inside ensure_queue_sidecar for
\* inbox blend n, up to its write_json: the sidecar was read and repaired in
\* memory, and there is something to write (changed, or no sidecar yet).
ensure_queue_sidecar_read(n) ==
  /\ Booted
  /\ req.op = "none"
  /\ req.served < MaxRequests
  /\ inbox[n].blend
  /\ LET metadata == ensure_queue_sidecar(inbox[n].meta, n, nextId, now)
     IN /\ metadata # inbox[n].meta
        /\ req' = [op |-> "reconcile", served |-> req.served + 1,
                   writes |-> OneWrite(n, metadata)]
  /\ nextId' = IF inbox[n].meta.id = 0 THEN nextId + 1 ELSE nextId
  /\ lastOp' = Other
  /\ UNCHANGED <<inbox, now, crashes, parsed, tree, upl>>
  /\ WorkerUnchanged /\ CancelUnchanged

\* Faulty variant of write_back: the sidecar is written where the job lies
\* now, in its processing directory when the worker has claimed it.
write_back_follows_job ==
  /\ req.op # "none"
  /\ inbox' = [n \in Names |->
                 IF req.writes[n] # NoMeta /\ ~proc[req.writes[n].id].dir
                 THEN [inbox[n] EXCEPT !.meta = req.writes[n]]
                 ELSE inbox[n]]
  /\ proc' = [d \in Ids |->
                IF proc[d].dir /\ \E n \in Names : req.writes[n].id = d
                THEN [proc[d] EXCEPT !.meta =
                        req.writes[CHOOSE n \in Names : req.writes[n].id = d]]
                ELSE proc[d]]
  /\ req' = [NoRequest EXCEPT !.served = req.served]
  /\ lastOp' = [op |-> "write_back", request |-> req.op]
  /\ UNCHANGED <<done, failed, cur, stop_event, active_process, child, wpc, w,
                 nextId, now, crashes, parsed, tree, upl>>
  /\ CancelUnchanged

\* write_json(json_path, metadata) of the request in flight: the sidecar
\* path in the inbox that the request computed when it read.
write_back ==
  /\ req.op # "none"
  /\ inbox' = [n \in Names |->
                 IF req.writes[n] # NoMeta
                 THEN [inbox[n] EXCEPT !.meta = req.writes[n]]
                 ELSE inbox[n]]
  /\ req' = [NoRequest EXCEPT !.served = req.served]
  /\ lastOp' = [op |-> "write_back", request |-> req.op]
  /\ UNCHANGED <<nextId, now, crashes, parsed, tree, upl>>
  /\ WorkerUnchanged /\ CancelUnchanged

\* POST /delete/<id> of an inbox job that Shared Status does not show RENDERING.
delete_job(job_id) ==
  /\ Booted
  /\ ~(cur.status = "RENDERING" /\ cur.id = job_id)
  /\ \E q \in {get_queue(inbox, nextId, now)} :
        /\ HasJob(q.inbox, job_id)
        /\ inbox' = [q.inbox EXCEPT ![find_input_job(q.inbox, job_id)] = NoFile]
        /\ nextId' = q.nextId
  /\ lastOp' = Other
  /\ UNCHANGED <<now, crashes, parsed, tree, req, upl>>
  /\ WorkerUnchanged /\ CancelUnchanged


\* A request turned down before anything is read: a job id that does not
\* match JOB_ID_RE, an upload that is no .blend file, a move with a direction
\* other than up, down, top.
invalid_request ==
  /\ Booted
  /\ lastOp' = [op |-> "rejected"]
  /\ UNCHANGED <<inbox, nextId, now, crashes, parsed, tree, req, upl>>
  /\ WorkerUnchanged /\ CancelUnchanged

\* POST /delete/<id> (or /jobs/<id>/start) for the job current_job reports as
\* RENDERING: 409 before the queue is read.
delete_active(job_id) ==
  /\ Booted
  /\ cur.status = "RENDERING" /\ cur.id = job_id
  /\ lastOp' = [op |-> "rejected"]
  /\ UNCHANGED <<inbox, nextId, now, crashes, parsed, tree, req, upl>>
  /\ WorkerUnchanged /\ CancelUnchanged

\* POST /jobs/<id>/queue/move for a job that is not QUEUED in the inbox: 404
\* after get_queue has run.
move_not_queued(job_id) ==
  /\ Booted
  /\ \E q \in {get_queue(inbox, nextId, now)} :
        /\ ~\E n \in BlendNames(q.inbox) :
              q.inbox[n].meta.id = job_id /\ q.inbox[n].meta.state = "QUEUED"
        /\ inbox' = q.inbox
        /\ nextId' = q.nextId
  /\ lastOp' = [op |-> "rejected"]
  /\ UNCHANGED <<now, crashes, parsed, tree, req, upl>>
  /\ WorkerUnchanged /\ CancelUnchanged

\* Faulty variant of start_not_pending: the record found is written back as
\* PENDING.
start_not_pending_resets(job_id) ==
  /\ Booted
  /\ ~(cur.status = "RENDERING" /\ cur.id = job_id)
  /\ \E q \in {get_queue(inbox, nextId, now)} :
        /\ IF HasJob(q.inbox, job_id)
           THEN /\ q.inbox[find_input_job(q.inbox, job_id)].meta.state # "PENDING"
                /\ inbox' = [q.inbox EXCEPT
                               ![find_input_job(q.inbox, job_id)].meta.state = "PENDING"]
           ELSE inbox' = q.inbox
        /\ nextId' = q.nextId
  /\ lastOp' = [op |-> "rejected"]
  /\ UNCHANGED <<now, crashes, parsed, tree, req, upl>>
  /\ WorkerUnchanged /\ CancelUnchanged

\* POST /jobs/<id>/start for a job that is not PENDING in the inbox: 404 when
\* find_input_job finds none, the unchanged QUEUED record otherwise.
start_not_pending(job_id) ==
  /\ Booted
  /\ ~(cur.status = "RENDERING" /\ cur.id = job_id)
  /\ \E q \in {get_queue(inbox, nextId, now)} :
        /\ IF HasJob(q.inbox, job_id)
           THEN q.inbox[find_input_job(q.inbox, job_id)].meta.state # "PENDING"
           ELSE TRUE
        /\ inbox' = q.inbox
        /\ nextId' = q.nextId
  /\ lastOp' = [op |-> "rejected"]
  /\ UNCHANGED <<now, crashes, parsed, tree, req, upl>>
  /\ WorkerUnchanged /\ CancelUnchanged

\* POST /queue/clear: cancels the active render when asked to, then removes
\* every inbox job get_queue lists.
clear_queue(cancel_active) ==
  /\ Booted
  /\ \E q \in {get_queue(inbox, nextId, now)} :
        /\ inbox' = [n \in Names |-> IF q.inbox[n].blend THEN NoFile ELSE q.inbox[n]]
        /\ nextId' = q.nextId
  /\ IF cancel_active /\ cur.status = "RENDERING"
     THEN /\ stop_event' = TRUE
          /\ child' = IF active_process /\ child.st = "running"
                      THEN [child EXCEPT !.term = TRUE] ELSE child
     ELSE UNCHANGED <<stop_event, child>>
  /\ lastOp' = Other
  /\ UNCHANGED <<proc, done, failed, cur, active_process, wpc, w, now, crashes, parsed, tree, req, upl>>
  /\ CancelUnchanged

\* Faulty variant of RetryMeta: every successor starts a lineage of its own.
RetryMetaOwnRoot(job_meta, dir, new_id, new_filename, t, kind) ==
  [NoMeta EXCEPT
     !.id = new_id,
     !.stored_filename = new_filename,
     !.mode = job_meta.mode,
     !.created_at = t,
     !.state = "QUEUED",
     !.queued_at = t,
     !.retry_of = IF kind = "retry" THEN dir
                  ELSE IF kind = "auto" \/ job_meta.id # 0 THEN job_meta.id
                  ELSE dir,
     !.root_id = new_id,
     !.attempt = (IF job_meta.attempt = 0 THEN 1 ELSE job_meta.attempt) + 1,
     !.auto_retry_of = IF kind = "auto" THEN job_meta.id ELSE 0,
     !.queue_priority = now_ms(t),
     !.override_off = (kind = "auto")]

\* Faulty variant of RetryMeta: the successor keeps the id of its predecessor.
RetryMetaSameId(job_meta, dir, new_id, new_filename, t, kind) ==
  [NoMeta EXCEPT
     !.id = IF job_meta.id # 0 THEN job_meta.id ELSE new_id,
     !.stored_filename = new_filename,
     !.mode = job_meta.mode,
     !.created_at = t,
     !.state = "QUEUED",
     !.queued_at = t,
     !.retry_of = IF kind = "retry" THEN dir
                  ELSE IF kind = "auto" \/ job_meta.id # 0 THEN job_meta.id
                  ELSE dir,
     !.root_id = IF job_meta.root_id # 0 THEN job_meta.root_id
                 ELSE IF kind = "retry" THEN dir
                 ELSE IF job_meta.id # 0 THEN job_meta.id
                 ELSE IF kind = "auto" THEN new_id ELSE dir,
     !.attempt = (IF job_meta.attempt = 0 THEN 1 ELSE job_meta.attempt) + 1,
     !.auto_retry_of = IF kind = "auto" THEN job_meta.id ELSE 0,
     !.queue_priority = now_ms(t),
     !.override_off = (kind = "auto")]

\* The sidecar retry_job ("retry"), retry_all_failed ("retry_all") and
\* enqueue_auto_retry ("auto") write for the successor of the archived job
\* whose sidecar is job_meta and whose directory is `dir`.
RetryMeta(job_meta, dir, new_id, new_filename, t, kind) ==
  [NoMeta EXCEPT
     !.id = new_id,
     !.stored_filename = new_filename,
     !.mode = job_meta.mode,
     !.created_at = t,
     !.state = "QUEUED",
     !.queued_at = t,
     !.retry_of = IF kind = "retry" THEN dir
                  ELSE IF kind = "auto" \/ job_meta.id # 0 THEN job_meta.id
                  ELSE dir,
     !.root_id = IF job_meta.root_id # 0 THEN job_meta.root_id
                 ELSE IF kind = "retry" THEN dir
                 ELSE IF job_meta.id # 0 THEN job_meta.id
                 ELSE IF kind = "auto" THEN new_id ELSE dir,
     !.attempt = (IF job_meta.attempt = 0 THEN 1 ELSE job_meta.attempt) + 1,
     !.auto_retry_of = IF kind = "auto" THEN job_meta.id ELSE 0,
     !.queue_priority = now_ms(t),
     !.override_off = (kind = "auto")]

\* base_name: the stored name of the archived job; a quarantined directory
\* without sidecar gives "<directory name>.blend" (here: name 1).
BaseName(job_meta) == IF job_meta.stored_filename # None THEN job_meta.stored_filename ELSE 1

\* The inbox after the blend of archive entry `e` was copied (copy2 keeps the
\* mtime) under a unique name and the successor's sidecar written.
Requeue(inb, e, dir, new_id, t, kind) ==
  LET new_filename == unique_filename(inb, BaseName(e.meta))
  IN [inb EXCEPT ![new_filename] =
        [blend |-> TRUE, mtime |-> e.mtime,
         meta |-> RetryMeta(e.meta, dir, new_id, new_filename, t, kind)]]

\* POST /jobs/<id>/retry of a failed-archive directory that holds the blend.
retry_job(job_id, limit) ==
  /\ Booted
  /\ nextId <= limit
  /\ failed[job_id].dir /\ failed[job_id].blend
  /\ inbox' = Requeue(inbox, failed[job_id], job_id, nextId, now, "retry")
  /\ nextId' = nextId + 1
  /\ lastOp' = Other
  /\ UNCHANGED <<now, crashes, parsed, tree, req, upl>>
  /\ WorkerUnchanged /\ CancelUnchanged

\* The failed-archive directories that hold a blend, in listing order.
Retryable ==
  LET S == {d \in FailedDirs : failed[d].dir /\ failed[d].blend}
      Rank(d) == Cardinality({e \in S : e < d})
  IN [r \in 1..Cardinality(S) |-> CHOOSE d \in S : Rank(d) = r - 1]

RECURSIVE RetryAll(_, _, _, _)
RetryAll(inb, dirs, nid, t) ==
  IF dirs = <<>> THEN inb
  ELSE LET step == Requeue(inb, failed[Head(dirs)], Head(dirs), nid, t, "retry_all")
       IN RetryAll(step, Tail(dirs), nid + 1, t)

\* POST /jobs/failed/retry-all with at least one directory to retry.
retry_all_failed(limit) ==
  /\ Booted
  /\ \E dirs \in {Retryable} :
        /\ Len(dirs) > 0
        /\ nextId + Len(dirs) - 1 <= limit
        /\ inbox' = RetryAll(inbox, dirs, nextId, now)
        /\ nextId' = nextId + Len(dirs)
  /\ lastOp' = Other
  /\ UNCHANGED <<now, crashes, parsed, tree, req, upl>>
  /\ WorkerUnchanged /\ CancelUnchanged

\* ------------------------------------------------------------ POST /cancel
\* snapshot = current_job_snapshot(); status RENDERING
cancel_snapshot ==
  /\ Booted
  /\ cpc = "idle"
  /\ cur.status = "RENDERING"
  /\ cpc' = "set"
  /\ cjob' = cur.id
  /\ lastOp' = Other
  /\ UNCHANGED <<inbox, nextId, now, crashes, parsed, tree, req, accepted, upl>>
  /\ WorkerUnchanged

\* context.stop_event.set()
cancel_set ==
  /\ cpc = "set"
  /\ stop_event' = TRUE
  /\ cpc' = "term"
  /\ lastOp' = Other
  /\ UNCHANGED <<inbox, proc, done, failed, cur, active_process, child, wpc, w,
                 cjob, accepted, nextId, now, crashes, parsed, tree, req, upl>>

\* process.terminate() when the handle is set and the process runs; return ok.
cancel_terminate ==
  /\ cpc = "term"
  /\ child' = IF active_process /\ child.st = "running"
              THEN [child EXCEPT !.term = TRUE] ELSE child
  /\ cpc' = "idle"
  /\ accepted' = accepted \cup {cjob}
  /\ lastOp' = [op |-> "cancel"]
  /\ UNCHANGED <<inbox, proc, done, failed, cur, stop_event, active_process, wpc, w,
                 cjob, nextId, now, crashes, parsed, tree, req, upl>>

\* ------------------------------------------------------------- worker_loop
ExternalUnchanged == UNCHANGED <<now, crashes, parsed, tree, req, upl>>

\* queue = jobs.get_render_queue(); empty: publish IDLE and sleep.
WPollIdle ==
  /\ wpc = "poll"
  /\ \E q \in {get_queue(inbox, nextId, now)} :
        /\ Len(get_render_queue(q.inbox)) = 0
        /\ inbox' = q.inbox
        /\ nextId' = q.nextId
  /\ cur' = IdleJob
  /\ lastOp' = Other
  /\ UNCHANGED <<proc, done, failed, stop_event, active_process, child, wpc, w>>
  /\ ExternalUnchanged /\ CancelUnchanged

\* queued_job = queue[0]
WPollHead ==
  /\ wpc = "poll"
  /\ \E q \in {get_queue(inbox, nextId, now)} :
        /\ Len(get_render_queue(q.inbox)) > 0
        /\ LET filename == get_render_queue(q.inbox)[1]
           IN w' = [NoLocals EXCEPT !.id = q.inbox[filename].meta.id,
                                    !.filename = filename,
                                    !.mode = q.inbox[filename].meta.mode]
        /\ inbox' = q.inbox
        /\ nextId' = q.nextId
  /\ wpc' = "claim"
  /\ lastOp' = Other
  /\ UNCHANGED <<proc, done, failed, cur, stop_event, active_process, child>>
  /\ ExternalUnchanged /\ CancelUnchanged

\* if not blend_in_queue.exists(): continue
WClaimGone ==
  /\ wpc = "claim"
  /\ ~inbox[w.filename].blend
  /\ wpc' = "poll"
  /\ w' = NoLocals
  /\ lastOp' = Other
  /\ UNCHANGED <<inbox, nextId, proc, done, failed, cur, stop_event, active_process, child>>
  /\ ExternalUnchanged /\ CancelUnchanged

\* processing_job_dir.mkdir(); shutil.move(blend_in_queue, processing_blend)
WClaimBlend ==
  /\ wpc = "claim"
  /\ inbox[w.filename].blend
  /\ ~proc[w.id].dir
  /\ proc' = [proc EXCEPT ![w.id] =
                [dir |-> TRUE, blend |-> TRUE, mtime |-> inbox[w.filename].mtime,
                 meta |-> NoMeta]]
  /\ inbox' = [inbox EXCEPT ![w.filename].blend = FALSE, ![w.filename].mtime = None]
  /\ wpc' = "claim_json"
  /\ lastOp' = Other
  /\ UNCHANGED <<nextId, done, failed, cur, stop_event, active_process, child, w>>
  /\ ExternalUnchanged /\ CancelUnchanged

\* The sidecar moves along; without one the worker writes a minimal payload.
WClaimSidecar ==
  /\ wpc = "claim_json"
  /\ IF inbox[w.filename].meta.state # "ABSENT"
     THEN /\ proc' = [proc EXCEPT ![w.id].meta = inbox[w.filename].meta]
          /\ inbox' = [inbox EXCEPT ![w.filename].meta = NoMeta]
     ELSE /\ proc' = [proc EXCEPT ![w.id].meta =
                        [NoMeta EXCEPT !.id = w.id, !.stored_filename = w.filename,
                                       !.mode = w.mode, !.created_at = now,
                                       !.state = "QUEUED"]]
          /\ UNCHANGED inbox
  /\ wpc' = "mark"
  /\ lastOp' = Other
  /\ UNCHANGED <<nextId, done, failed, cur, stop_event, active_process, child, w>>
  /\ ExternalUnchanged /\ CancelUnchanged

\* job_meta["state"] = "RENDERING"; write_json(processing_json, job_meta)
WMark ==
  /\ wpc = "mark"
  /\ proc' = [proc EXCEPT ![w.id].meta =
                [@ EXCEPT !.id = w.id, !.mode = w.mode,
                          !.stored_filename = w.filename, !.state = "RENDERING"]]
  /\ wpc' = "publish"
  /\ lastOp' = Other
  /\ UNCHANGED <<inbox, nextId, done, failed, cur, stop_event, active_process, child, w>>
  /\ ExternalUnchanged /\ CancelUnchanged

\* context.update_current_job(status="RENDERING", id=job_id, ...)
WPublish ==
  /\ wpc = "publish"
  /\ cur' = [status |-> "RENDERING", id |-> w.id, filename |-> w.filename,
             progress |-> 0]
  /\ wpc' = "clear"
  /\ lastOp' = Other
  /\ UNCHANGED <<inbox, nextId, proc, done, failed, stop_event, active_process, child, w>>
  /\ ExternalUnchanged /\ CancelUnchanged

\* context.stop_event.clear(); the effective turbo settings are recorded:
\* use_hiprt of the runtime configuration unless the sidecar's override
\* switches it off; an ARTIST job records its artist_use_hiprt (always false).
WClear ==
  /\ wpc = "clear"
  /\ stop_event' = FALSE
  /\ \E use_hiprt \in BOOLEAN :
        proc' = [proc EXCEPT ![w.id].meta.hiprt_used =
                   IF w.mode = "TURBO"
                   THEN use_hiprt /\ ~proc[w.id].meta.override_off
                   ELSE FALSE]
  /\ wpc' = "spawn"
  /\ lastOp' = Other
  /\ UNCHANGED <<inbox, nextId, done, failed, cur, active_process, child, w>>
  /\ ExternalUnchanged /\ CancelUnchanged

\* process = subprocess.Popen(...); context.active_process = process
WSpawn ==
  /\ wpc = "spawn"
  /\ child' = [st |-> "running", rc |-> 0, term |-> FALSE]
  /\ active_process' = TRUE
  /\ wpc' = "stream"
  /\ lastOp' = Other
  /\ UNCHANGED <<inbox, nextId, proc, done, failed, cur, stop_event, w>>
  /\ ExternalUnchanged /\ CancelUnchanged

\* Popen raises: returncode stays -1, the finally block clears the handle.
WSpawnFails ==
  /\ wpc = "spawn"
  /\ w' = [w EXCEPT !.rc = None, !.exc = TRUE,
                    !.reason = [text |-> "Worker Ausnahme", rc |-> Unset]]
  /\ active_process' = FALSE
  /\ wpc' = "decide"
  /\ lastOp' = Other
  /\ UNCHANGED <<inbox, nextId, proc, done, failed, cur, stop_event, child>>
  /\ ExternalUnchanged /\ CancelUnchanged

\* The render process ends by itself, or on the termination signal.
ChildExit(rc) ==
  /\ child.st = "running"
  /\ child' = [child EXCEPT !.st = "exited", !.rc = IF child.term THEN 1 ELSE rc]
  /\ lastOp' = Other
  /\ UNCHANGED <<inbox, nextId, proc, done, failed, cur, stop_event, active_process, wpc, w>>
  /\ ExternalUnchanged /\ CancelUnchanged

\* The process has written a line, the worker reads it and finds stop_event
\* set: terminate, wait at most 5 s, kill, leave the loop;
\* returncode = process.wait(); the handle is cleared.  The step needs the
\* line: the flag is looked at nowhere else while the worker streams.
WStop ==
  /\ wpc = "stream"
  /\ stop_event
  /\ \E rc \in {IF child.st = "exited" THEN child.rc ELSE 1} :
        /\ child' = [child EXCEPT !.st = "exited", !.rc = rc]
        /\ w' = [w EXCEPT !.rc = rc]
  /\ active_process' = FALSE
  /\ wpc' = "decide"
  /\ lastOp' = Other
  /\ UNCHANGED <<inbox, nextId, proc, done, failed, cur, stop_event>>
  /\ ExternalUnchanged /\ CancelUnchanged

\* Faulty variant of WStreamFails: the handle is cleared only on the normal
\* path, not in a finally block.
WStreamFailsKeepsHandle ==
  /\ wpc = "stream"
  /\ w' = [w EXCEPT !.rc = None, !.exc = TRUE,
                    !.reason = [text |-> "Worker Ausnahme", rc |-> Unset]]
  /\ child' = NoChild
  /\ wpc' = "decide"
  /\ lastOp' = Other
  /\ UNCHANGED <<inbox, nextId, proc, done, failed, cur, stop_event, active_process>>
  /\ ExternalUnchanged /\ CancelUnchanged

\* Reading the output or writing the log raises: returncode stays -1, the
\* finally block clears the handle.  The process is not waited for and no
\* variable of the program refers to it any more: it leaves the model.
WStreamFails ==
  /\ wpc = "stream"
  /\ w' = [w EXCEPT !.rc = None, !.exc = TRUE,
                    !.reason = [text |-> "Worker Ausnahme", rc |-> Unset]]
  /\ child' = NoChild
  /\ active_process' = FALSE
  /\ wpc' = "decide"
  /\ lastOp' = Other
  /\ UNCHANGED <<inbox, nextId, proc, done, failed, cur, stop_event>>
  /\ ExternalUnchanged /\ CancelUnchanged

\* The worker reads a line that carries progress and stop_event is not set:
\* context.update_current_job(**payload) overwrites the progress fields the
\* line names.
WProgress ==
  /\ wpc = "stream"
  /\ ~stop_event
  /\ cur' = [cur EXCEPT !.progress = w.id]
  /\ lastOp' = Other
  /\ UNCHANGED <<inbox, nextId, proc, done, failed, stop_event, active_process,
                 child, wpc, w>>
  /\ ExternalUnchanged /\ CancelUnchanged

\* The output ends: returncode = process.wait(); the handle is cleared.
WEof ==
  /\ wpc = "stream"
  /\ child.st = "exited"
  /\ w' = [w EXCEPT !.rc = child.rc]
  /\ active_process' = FALSE
  /\ wpc' = "decide"
  /\ lastOp' = Other
  /\ UNCHANGED <<inbox, nextId, proc, done, failed, cur, stop_event, child>>
  /\ ExternalUnchanged /\ CancelUnchanged

\* Faulty variant of Decided: every exit of the process counts as success.
DecidedAnyExit(stop, rc) ==
  IF stop THEN "CANCELED" ELSE IF rc >= 0 THEN "DONE" ELSE "FAILED"

\* The terminal state the worker decides on.
Decided(stop, rc) ==
  IF stop THEN "CANCELED" ELSE IF rc = 0 THEN "DONE" ELSE "FAILED"

\* The reason the worker passes to finalize_job: every branch of the state
\* decision assigns it anew.
Reason(stop, rc) ==
  IF stop THEN [text |-> "Vom Benutzer abgebrochen", rc |-> Unset]
  ELSE IF rc = 0 THEN [text |-> "Render fertig", rc |-> Unset]
  ELSE [text |-> "Render fehlgeschlagen", rc |-> rc]

\* Faulty variant of WantsAutoRetry: a canceled job is retried as well.
WantsAutoRetryCanceled(state, mode, job_meta) ==
  /\ state \in {"FAILED", "CANCELED"}
  /\ mode = "TURBO"
  /\ job_meta.hiprt_used
  /\ job_meta.auto_retry_of = 0
  /\ ~job_meta.auto_retry_done

\* The automatic-retry condition of the worker.
WantsAutoRetry(state, mode, job_meta) ==
  /\ state = "FAILED"
  /\ mode = "TURBO"
  /\ job_meta.hiprt_used
  /\ job_meta.auto_retry_of = 0
  /\ ~job_meta.auto_retry_done

\* Faulty variant of WDecide: the terminal state is not written to the sidecar.
WDecideKeepsState(limit) ==
  /\ wpc = "decide"
  /\ LET state == Decided(stop_event, w.rc)
         retry == WantsAutoRetry(state, w.mode, proc[w.id].meta)
     IN /\ retry => nextId <= limit
        /\ w' = [w EXCEPT !.state = state, !.retry = IF retry THEN nextId ELSE 0,
                          !.reason = Reason(stop_event, w.rc)]
        /\ nextId' = IF retry THEN nextId + 1 ELSE nextId
        /\ proc' = [proc EXCEPT ![w.id].meta =
                      [@ EXCEPT !.auto_retry_done = @ \/ retry,
                                !.returncode = w.rc,
                                !.reason = Reason(stop_event, w.rc)]]
  /\ wpc' = "fin_move"
  /\ lastOp' = Other
  /\ UNCHANGED <<inbox, done, failed, cur, stop_event, active_process, child>>
  /\ ExternalUnchanged /\ CancelUnchanged

\* The state decision, the automatic-retry decision, and finalize_job's
\* write of the terminal state into the processing sidecar.
WDecide(limit) ==
  /\ wpc = "decide"
  /\ LET state == Decided(stop_event, w.rc)
         retry == WantsAutoRetry(state, w.mode, proc[w.id].meta)
     IN /\ retry => nextId <= limit
        /\ w' = [w EXCEPT !.state = state, !.retry = IF retry THEN nextId ELSE 0,
                          !.reason = Reason(stop_event, w.rc)]
        /\ nextId' = IF retry THEN nextId + 1 ELSE nextId
        /\ proc' = [proc EXCEPT ![w.id].meta =
                      [@ EXCEPT !.state = state,
                                !.auto_retry_done = @ \/ retry,
                                !.returncode = w.rc,
                                !.reason = Reason(stop_event, w.rc)]]
  /\ wpc' = "fin_move"
  /\ lastOp' = Other
  /\ UNCHANGED <<inbox, done, failed, cur, stop_event, active_process, child>>
  /\ ExternalUnchanged /\ CancelUnchanged

\* Faulty variant of WFinMove: only FAILED jobs go to the failed archive.
WFinMoveCanceledToDone ==
  /\ wpc = "fin_move"
  /\ IF w.state # "FAILED"
     THEN /\ ~done[w.id].dir
          /\ done' = [done EXCEPT ![w.id] = proc[w.id]]
          /\ UNCHANGED failed
     ELSE /\ ~failed[w.id].dir
          /\ failed' = [failed EXCEPT ![w.id] = proc[w.id]]
          /\ UNCHANGED done
  /\ proc' = [proc EXCEPT ![w.id] = NoDir]
  /\ wpc' = IF w.state = "FAILED" /\ w.retry # 0 THEN "auto_retry" ELSE "publish_end"
  /\ lastOp' = Other
  /\ UNCHANGED <<inbox, nextId, cur, stop_event, active_process, child, w>>
  /\ ExternalUnchanged /\ CancelUnchanged

\* finalize_job: shutil.move(processing_job_dir, target_dir)
WFinMove ==
  /\ wpc = "fin_move"
  /\ IF w.state = "DONE"
     THEN /\ ~done[w.id].dir
          /\ done' = [done EXCEPT ![w.id] = proc[w.id]]
          /\ UNCHANGED failed
     ELSE /\ ~failed[w.id].dir
          /\ failed' = [failed EXCEPT ![w.id] = proc[w.id]]
          /\ UNCHANGED done
  /\ proc' = [proc EXCEPT ![w.id] = NoDir]
  /\ wpc' = IF w.state = "FAILED" /\ w.retry # 0 THEN "auto_retry" ELSE "publish_end"
  /\ lastOp' = Other
  /\ UNCHANGED <<inbox, nextId, cur, stop_event, active_process, child, w>>
  /\ ExternalUnchanged /\ CancelUnchanged

\* jobs.enqueue_auto_retry(target_dir, job_meta, auto_retry_job_id)
WAutoRetry ==
  /\ wpc = "auto_retry"
  /\ inbox' = Requeue(inbox, failed[w.id], w.id, w.retry, now, "auto")
  /\ wpc' = "publish_end"
  /\ lastOp' = Other
  /\ UNCHANGED <<nextId, proc, done, failed, cur, stop_event, active_process, child, w>>
  /\ ExternalUnchanged /\ CancelUnchanged

\* Faulty variant of WPublishEnd: the post-job update resets status and
\* progress but leaves id and filename on show.
WPublishEndKeepsId ==
  /\ wpc = "publish_end"
  /\ cur' = [status |-> IF w.state = "DONE" THEN "IDLE" ELSE "ERROR",
             id |-> cur.id, filename |-> cur.filename, progress |-> 0]
  /\ wpc' = "clear_end"
  /\ lastOp' = Other
  /\ UNCHANGED <<inbox, nextId, proc, done, failed, stop_event, active_process, child, w>>
  /\ ExternalUnchanged /\ CancelUnchanged

\* context.update_current_job(status="IDLE" if state == "DONE" else "ERROR", id=None)
WPublishEnd ==
  /\ wpc = "publish_end"
  /\ cur' = [status |-> IF w.state = "DONE" THEN "IDLE" ELSE "ERROR",
             id |-> 0, filename |-> None, progress |-> 0]
  /\ wpc' = "clear_end"
  /\ lastOp' = Other
  /\ UNCHANGED <<inbox, nextId, proc, done, failed, stop_event, active_process, child, w>>
  /\ ExternalUnchanged /\ CancelUnchanged

\* context.stop_event.clear(); next iteration
WClearEnd ==
  /\ wpc = "clear_end"
  /\ stop_event' = FALSE
  /\ wpc' = "poll"
  /\ w' = NoLocals
  /\ child' = NoChild
  /\ lastOp' = Other
  /\ UNCHANGED <<inbox, nextId, proc, done, failed, cur, active_process>>
  /\ ExternalUnchanged /\ CancelUnchanged

\* ------------------------------------------------------ crash and recovery
\* The service process dies: everything in memory is gone, the disk stays.
Crash ==
  /\ crashes < MaxCrashes
  /\ crashes' = crashes + 1
  /\ upl' = NoUpload
  /\ cur' = IdleJob
  /\ stop_event' = FALSE
  /\ active_process' = FALSE
  /\ child' = NoChild
  /\ wpc' = "boot"
  /\ w' = NoLocals
  /\ cpc' = "idle"
  /\ cjob' = 0
  /\ accepted' = {}
  /\ lastOp' = [op |-> "crash"]
  /\ req' = NoRequest
  /\ UNCHANGED <<inbox, proc, done, failed, nextId, now, parsed, tree>>

\* The target of a quarantine: recovery-broken-<name>, or a disambiguated
\* variant (uuid suffix: some name the archive does not hold) when that exists.
QuarantineName(archive, d) ==
  IF ~archive[0 - d].dir THEN 0 - d
  ELSE CHOOSE x \in FailedDirs : x < 0 /\ ~archive[x].dir

\* Faulty variant of Quarantine: the broken directory is removed.
QuarantineDeletes(st, d) == [st EXCEPT !.proc[d] = NoDir]

\* shutil.move(entry, target): the directory goes whole into the failed
\* archive.
Quarantine(st, d) ==
  [st EXCEPT !.failed[QuarantineName(st.failed, d)] = st.proc[d],
             !.proc[d] = NoDir]

\* Faulty variant of RecoverEntry: the restored record keeps its attempt.
RecoverEntryKeepsAttempt(st, d) ==
  LET entry == st.proc[d]
      metadata == entry.meta
  IN IF ~entry.blend \/ metadata.state = "ABSENT"
     THEN Quarantine(st, d)
     ELSE LET restored_name == unique_filename(st.inbox, BaseName(metadata))
          IN [st EXCEPT
                !.inbox[restored_name] =
                   [blend |-> TRUE, mtime |-> entry.mtime,
                    meta |-> [metadata EXCEPT
                                !.stored_filename = restored_name,
                                !.state = "QUEUED",
                                !.root_id = IF @ = 0 THEN metadata.id ELSE @]],
                !.proc[d] = NoDir]

\* Faulty variant of RecoverEntry: the blend is restored under its stored name
\* without unique_filename.
RecoverEntryOverwrites(st, d) ==
  LET entry == st.proc[d]
      metadata == entry.meta
  IN IF ~entry.blend \/ metadata.state = "ABSENT"
     THEN Quarantine(st, d)
     ELSE LET restored_name == BaseName(metadata)
          IN [st EXCEPT
                !.inbox[restored_name] =
                   [blend |-> TRUE, mtime |-> entry.mtime,
                    meta |-> [metadata EXCEPT
                                !.stored_filename = restored_name,
                                !.state = "QUEUED",
                                !.attempt = (IF @ = 0 THEN 1 ELSE @) + 1,
                                !.root_id = IF @ = 0 THEN metadata.id ELSE @]],
                !.proc[d] = NoDir]

\* One directory of recover_processing_jobs: quarantined when the blend or the
\* sidecar is missing, else restored to the inbox as QUEUED and removed.
RecoverEntry(st, d) ==
  LET entry == st.proc[d]
      metadata == entry.meta
  IN IF ~entry.blend \/ metadata.state = "ABSENT"
     THEN Quarantine(st, d)
     ELSE LET restored_name == unique_filename(st.inbox, BaseName(metadata))
          IN [st EXCEPT
                !.inbox[restored_name] =
                   [blend |-> TRUE, mtime |-> entry.mtime,
                    meta |-> [metadata EXCEPT
                                !.stored_filename = restored_name,
                                !.state = "QUEUED",
                                !.attempt = (IF @ = 0 THEN 1 ELSE @) + 1,
                                !.root_id = IF @ = 0 THEN metadata.id ELSE @]],
                !.proc[d] = NoDir]

RECURSIVE RecoverFrom(_, _)
RecoverFrom(st, d) ==
  IF d > IdCap THEN st
  ELSE RecoverFrom(IF st.proc[d].dir THEN RecoverEntry(st, d) ELSE st, d + 1)

\* Startup: jobs.recover_processing_jobs(), then the worker thread starts.
Recover ==
  /\ wpc = "boot"
  /\ \E st \in {RecoverFrom([inbox |-> inbox, proc |-> proc, failed |-> failed], 1)} :
        /\ inbox' = st.inbox
        /\ proc' = st.proc
        /\ failed' = st.failed
  /\ wpc' = "poll"
  /\ lastOp' = [op |-> "recover",
                rendering |-> {d \in Ids : proc[d].dir /\ proc[d].meta.state = "RENDERING"}]
  /\ UNCHANGED <<done, cur, stop_event, active_process, child, w, nextId>>
  /\ ExternalUnchanged /\ CancelUnchanged

\* ------------------------------------------------------------------
\* The progress parser (worker.py, parse_blender_output).  A line is a
\* sequence of characters.
\* ------------------------------------------------------------------

Digits == {"0", "1", "2", "3", "4", "5", "6", "7", "8", "9"}
DigitSeq == <<"0", "1", "2", "3", "4", "5", "6", "7", "8", "9">>
\* \s of the patterns, restricted to the characters the modelled lines use
Spaces == {" ", "\t"}
UpperSeq == <<"A", "B", "C", "D", "E", "F", "G", "H", "I", "J", "K", "L", "M", "N", "O", "P", "Q", "R", "S", "T", "U", "V", "W", "X", "Y", "Z">>
LowerSeq == <<"a", "b", "c", "d", "e", "f", "g", "h", "i", "j", "k", "l", "m", "n", "o", "p", "q", "r", "s", "t", "u", "v", "w", "x", "y", "z">>

\* re.IGNORECASE compares letters without case
Lower(ch) ==
  IF \E i \in 1..26 : UpperSeq[i] = ch
  THEN LowerSeq[CHOOSE i \in 1..26 : UpperSeq[i] = ch]
  ELSE ch

min(a, b) == IF a < b THEN a ELSE b
max(a, b) == IF a > b THEN a ELSE b

\* int(group) of a \d+ group
RECURSIVE int(_)
int(ds) ==
  IF ds = <<>> THEN 0
  ELSE 10 * int(SubSeq(ds, 1, Len(ds) - 1))
       + (CHOOSE v \in 0..9 : DigitSeq[v + 1] = ds[Len(ds)])

\* str(n) of the f-strings
RECURSIVE str(_)
str(n) ==
  IF n < 10 THEN <<DigitSeq[n + 1]>>
  ELSE str(n \div 10) \o <<DigitSeq[(n % 10) + 1]>>

\* index behind the longest run of characters of set that starts at i
RECURSIVE SkipWhile(_, _, _)
SkipWhile(line, i, set) ==
  IF i <= Len(line) /\ line[i] \in set
  THEN SkipWhile(line, i + 1, set)
  ELSE i

\* the literal lit stands at index i of line
LitAt(line, i, lit, ic) ==
  /\ i + Len(lit) - 1 <= Len(line)
  /\ \A k \in 1..Len(lit) :
        IF ic THEN Lower(line[i + k - 1]) = Lower(lit[k])
        ELSE line[i + k - 1] = lit[k]

NoMatch == [ok |-> FALSE, g1 |-> <<>>, g2 |-> <<>>, end |-> 0]

\* The patterns are of one shape: a literal, \s* or \s+ (minsp = 1), a group
\* of characters of set and, when two, a slash (loose: with \s* on both
\* sides), a second group of digits and possibly \s* and a trailing literal;
\* ic: re.IGNORECASE.
\* r"Fra:\s*(\d+)"
FramePattern ==
  [lit |-> <<"F", "r", "a", ":">>, ic |-> FALSE, minsp |-> 0,
   set |-> Digits, two |-> FALSE, loose |-> FALSE, trailer |-> <<>>]
\* r"Sample\s+(\d+)/(\d+)"
SamplePattern ==
  [lit |-> <<"S", "a", "m", "p", "l", "e">>, ic |-> FALSE, minsp |-> 1,
   set |-> Digits, two |-> TRUE, loose |-> FALSE, trailer |-> <<>>]
\* r"\[TILES\]\s*(\d+)\s*/\s*(\d+)"
TilesPattern ==
  [lit |-> <<"[", "T", "I", "L", "E", "S", "]">>, ic |-> FALSE, minsp |-> 0,
   set |-> Digits, two |-> TRUE, loose |-> TRUE, trailer |-> <<>>]
\* r"Rendered\s+(\d+)\s*/\s*(\d+)\s*Tiles", re.IGNORECASE
RenderedPattern ==
  [lit |-> <<"R", "e", "n", "d", "e", "r", "e", "d">>, ic |-> TRUE, minsp |-> 1,
   set |-> Digits, two |-> TRUE, loose |-> TRUE, trailer |-> <<"T", "i", "l", "e", "s">>]
\* r"Tile\s+(\d+)\s*/\s*(\d+)", re.IGNORECASE
TilePattern ==
  [lit |-> <<"T", "i", "l", "e">>, ic |-> TRUE, minsp |-> 1,
   set |-> Digits, two |-> TRUE, loose |-> TRUE, trailer |-> <<>>]
\* r"Remaining:\s*([0-9:.]+)"
RemainingPattern ==
  [lit |-> <<"R", "e", "m", "a", "i", "n", "i", "n", "g", ":">>, ic |-> FALSE, minsp |-> 0,
   set |-> Digits \cup {":", "."}, two |-> FALSE, loose |-> FALSE, trailer |-> <<>>]

\* pattern.match(line, i): the groups, when the pattern matches at index i
Match(line, i, p) ==
  IF ~LitAt(line, i, p.lit, p.ic) THEN NoMatch
  ELSE LET a == i + Len(p.lit)
           b == SkipWhile(line, a, Spaces)
           c == SkipWhile(line, b, p.set)
           d == IF p.loose THEN SkipWhile(line, c, Spaces) ELSE c
           e == IF p.loose THEN SkipWhile(line, d + 1, Spaces) ELSE d + 1
           f == SkipWhile(line, e, Digits)
           g == SkipWhile(line, f, Spaces)
       IN IF ~(b - a >= p.minsp /\ c > b) THEN NoMatch
          ELSE IF ~p.two
          THEN [ok |-> TRUE, g1 |-> SubSeq(line, b, c - 1), g2 |-> <<>>, end |-> c]
          ELSE IF /\ d <= Len(line)
                  /\ line[d] = "/"
                  /\ f > e
                  /\ (p.trailer = <<>> \/ LitAt(line, g, p.trailer, p.ic))
          THEN [ok |-> TRUE, g1 |-> SubSeq(line, b, c - 1),
                g2 |-> SubSeq(line, e, f - 1), end |-> f]
          ELSE NoMatch

\* re.search: the match at the leftmost index at which the pattern matches
Search(line, p) ==
  LET all == [i \in 1..Len(line) |-> Match(line, i, p)]
      hits == {i \in 1..Len(line) : all[i].ok}
  IN IF hits = {} THEN NoMatch
     ELSE all[CHOOSE i \in hits : \A j \in hits : i <= j]

\* ---- binary64 arithmetic of (current_int / total_int) * 100 ----
\* A double is [m, e]: m the 53-bit significand as five digits of 13 bits,
\* lowest digit first (the fifth digit is the leading 1), e the exponent of
\* its lowest bit; zero has no digits.  Operands stay below 2^17.
Mantissa == 53
DigitBits == 13
Base == 8192
Zero == [m |-> <<>>, e |-> 0]

RECURSIVE Pow2(_)
Pow2(k) == IF k = 0 THEN 1 ELSE 2 * Pow2(k - 1)

RECURSIVE BitLength(_)
BitLength(v) == IF v = 0 THEN 0 ELSE 1 + BitLength(v \div 2)

RECURSIVE Reverse(_)
Reverse(s) == IF s = <<>> THEN <<>> ELSE Reverse(Tail(s)) \o <<Head(s)>>

\* p * f for a small factor f
RECURSIVE MulDigits(_, _, _)
MulDigits(p, f, carry) ==
  IF p = <<>> THEN (IF carry = 0 THEN <<>> ELSE <<carry>>)
  ELSE LET v == Head(p) * f + carry
       IN <<v % Base>> \o MulDigits(Tail(p), f, v \div Base)

\* p + 1 on the digits below the leading one
RECURSIVE IncDigits(_)
IncDigits(p) ==
  IF Len(p) = 1 THEN <<Head(p) + 1>>
  ELSE IF Head(p) + 1 < Base THEN <<Head(p) + 1>> \o Tail(p)
  ELSE <<0>> \o IncDigits(Tail(p))

RECURSIVE DigitsVal(_)
DigitsVal(p) == IF p = <<>> THEN 0 ELSE Head(p) + Base * DigitsVal(Tail(p))

\* bit j of p, counted from 0
BitOf(p, j) == (p[(j \div DigitBits) + 1] \div Pow2(j % DigitBits)) % 2

\* p shifted right by k bits
ShrDigits(p, k) ==
  LET q == k \div DigitBits
      s == k % DigitBits
      at(i) == IF i <= Len(p) THEN p[i] ELSE 0
  IN IF q >= Len(p) THEN <<>>
     ELSE [i \in 1..(Len(p) - q) |->
             (at(i + q) \div Pow2(s)) + (at(i + q + 1) % Pow2(s)) * Pow2(DigitBits - s)]

\* p * 2^e rounded to Mantissa bits, ties to even; sticky: the exact value
\* has further nonzero bits below p
RoundDigits(p, e, sticky) ==
  LET drop == DigitBits * (Len(p) - 1) + BitLength(p[Len(p)]) - Mantissa
      kept == ShrDigits(p, drop)
      guard == BitOf(p, drop - 1)
      rest == sticky \/ \E j \in 0..(drop - 2) : BitOf(p, j) = 1
      up == guard = 1 /\ (rest \/ kept[1] % 2 = 1)
      r == IF up THEN IncDigits(kept) ELSE kept
  IN IF r[Len(r)] = 2
     THEN [m |-> [i \in 1..Len(r) |-> IF i = Len(r) THEN 1 ELSE 0], e |-> e + drop + 1]
     ELSE [m |-> r, e |-> e + drop]

\* k more digits of r / d (r < d), highest first, and the remainder
RECURSIVE DivDigits(_, _, _)
DivDigits(r, d, k) ==
  IF k = 0 THEN [digits |-> <<>>, rem |-> r]
  ELSE LET q == DivDigits((r * Base) % d, d, k - 1)
       IN [digits |-> <<(r * Base) \div d>> \o q.digits, rem |-> q.rem]

\* the binary exponent of n / d: the E with 2^E <= n / d < 2^(E + 1)
RECURSIVE ExpUp(_, _)
ExpUp(n, d) == IF 2 * d <= n THEN 1 + ExpUp(n, 2 * d) ELSE 0
RECURSIVE ExpDown(_, _)
ExpDown(n, d) == IF n < d THEN 1 + ExpDown(2 * n, d) ELSE 0

\* current_int / total_int: the quotient of two ints, correctly rounded
TrueDiv(c, t) ==
  IF c = 0 THEN Zero
  ELSE LET up == ExpUp(c, t)
           down == ExpDown(c, t)
           n == c * Pow2(down)
           d == t * Pow2(up)
           q == DivDigits(n - d, d, 5)
       IN RoundDigits(Reverse(<<1>> \o q.digits), up - down - 5 * DigitBits,
                      q.rem # 0)

\* x * 100: the product of two doubles, correctly rounded
Mul100(x) ==
  IF x.m = <<>> THEN Zero
  ELSE RoundDigits(MulDigits(x.m, 100, 0), x.e, FALSE)

\* int(x): truncation
Trunc(x) ==
  IF x.m = <<>> THEN 0
  ELSE IF x.e >= 0 THEN DigitsVal(x.m) * Pow2(x.e)
  ELSE DigitsVal(ShrDigits(x.m, 0 - x.e))

\* An update without fields; None and <<>> stand for a key that is not set.
EmptyPayload ==
  [frame |-> None, sample_current |-> None, sample_total |-> None,
   progress |-> None, tile_current |-> None, tile_total |-> None,
   message |-> <<>>, remaining |-> <<>>]

parse_blender_output(line) ==
  LET frame_match == Search(line, FramePattern)
      frame == int(frame_match.g1)
      sample_match == Search(line, SamplePattern)
      current_int == int(sample_match.g1)
      total_int == max(int(sample_match.g2), 1)
      percentage == Trunc(Mul100(TrueDiv(current_int, total_int)))
      frame_label == IF frame_match.ok
                     THEN <<"F", "r", "a", "m", "e", " ">> \o str(frame) \o <<" ", "|", " ">>
                     ELSE <<>>
      tiles1 == Search(line, TilesPattern)
      tiles2 == IF tiles1.ok THEN tiles1 ELSE Search(line, RenderedPattern)
      tile_match == IF tiles2.ok THEN tiles2 ELSE Search(line, TilePattern)
      remaining_match == Search(line, RemainingPattern)
  IN [frame |-> IF frame_match.ok THEN frame ELSE None,
      sample_current |-> IF sample_match.ok THEN current_int ELSE None,
      sample_total |-> IF sample_match.ok THEN total_int ELSE None,
      progress |-> IF sample_match.ok THEN max(0, min(percentage, 100)) ELSE None,
      message |-> IF sample_match.ok
                  THEN frame_label \o <<"S", "a", "m", "p", "l", "e", " ">> \o str(current_int)
                       \o <<"/">> \o str(total_int)
                  ELSE IF frame_match.ok
                  THEN <<"R", "e", "n", "d", "e", "r", "i", "n", "g", " ", "F", "r", "a", "m", "e", " ">> \o str(frame)
                  ELSE <<>>,
      tile_current |-> IF tile_match.ok THEN int(tile_match.g1) ELSE None,
      tile_total |-> IF tile_match.ok THEN max(int(tile_match.g2), 1) ELSE None,
      remaining |-> IF remaining_match.ok THEN remaining_match.g1 ELSE <<>>]

\* Lines the render process prints.
MaxSample == 30
MaxTotal == 52
\* the totals tried: the small ones and the multiples of 25
SampleTotals == {t \in 0..MaxTotal : t < 4 \/ t % 25 = 0}
SampleLine(c, t) == <<"S", "a", "m", "p", "l", "e", " ">> \o str(c) \o <<"/">> \o str(t)
LineSample512 == <<"S", "a", "m", "p", "l", "e", " ", "5", "1", "2", "/", "4", "0", "9", "6">>
LineFra3 == <<"F", "r", "a", ":", " ", "3">>
LineTiles == <<"[", "T", "I", "L", "E", "S", "]", " ", "1", "0", "/", "4", "0">>
\* lines that match none of the six patterns
UnrelatedLines ==
  { <<>>,
    <<"B", "l", "e", "n", "d", "e", "r", " ", "4", ".", "1", ".", "0">>,
    <<"S", "a", "v", "e", "d", ":", " ", "o", "u", "t", ".", "p", "n", "g">>,
    <<"S", "a", "m", "p", "l", "e", "5", "/", "1", "0">>,
    <<"S", "a", "m", "p", "l", "e", " ", "5", " ", "/", " ", "1", "0">>,
    <<"F", "r", "a", ":", " ", "x">>,
    <<"T", "I", "L", "E", "S", " ", "3", "/", "4">>,
    <<"T", "i", "l", "e", "s", ":", " ", "3">>,
    <<"S", "a", "m", "p", "l", "e", " ", "7">>,
    <<"T", "i", "m", "e", ":", " ", "0", "0", ":", "1", "2", ".", "5">> }
MixedLines ==
  { <<"F", "r", "a", ":", "1", "2", " ", "M", "e", "m", ":", "8", "M", " ", "|", " ", "S", "a", "m", "p", "l", "e", " ", "3", "/", "8">>,
    <<"R", "e", "n", "d", "e", "r", "e", "d", " ", "3", "/", "4", " ", "T", "i", "l", "e", "s">>,
    <<"r", "e", "n", "d", "e", "r", "e", "d", " ", "3", " ", "/", " ", "4", " ", "t", "i", "l", "e", "s">>,
    <<"t", "i", "l", "e", " ", "2", "/", "9">>,
    <<"R", "e", "m", "a", "i", "n", "i", "n", "g", ":", " ", "0", "0", ":", "1", "2", ".", "5">>,
    <<"F", "r", "a", ":", " ", "3", " ", "|", " ", "S", "a", "m", "p", "l", "e", " ", "1", "/", "2", " ", "|", " ", "[", "T", "I", "L", "E", "S", "]", " ", "1", "/", "4", " ", "|", " ", "R", "e", "m", "a", "i", "n", "i", "n", "g", ":", "1", ":", "0", "2">>,
    <<"S", "a", "m", "p", "l", "e", " ", "0", "0", "7", "/", "0", "1", "0">>,
    <<"[", "T", "I", "L", "E", "S", "]", "5", "/", "0">>,
    <<"S", "a", "m", "p", "l", "e", " ", "1", "/", "3", " ", "S", "a", "m", "p", "l", "e", " ", "2", "/", "3">> }
Lines ==
  {SampleLine(c, t) : c \in 0..MaxSample, t \in SampleTotals}
    \cup {LineSample512, LineFra3, LineTiles} \cup UnrelatedLines \cup MixedLines

NoParse == [pc |-> "idle", line |-> <<>>, payload |-> EmptyPayload]

\* worker_loop reads a line of the render process ...
ReadLine ==
  /\ parsed.pc = "idle"
  /\ \E line \in Lines : parsed' = [parsed EXCEPT !.pc = "read", !.line = line]
  /\ lastOp' = Other
  /\ UNCHANGED <<inbox, proc, done, failed, cur, stop_event, active_process, child,
                 wpc, w, cpc, cjob, accepted, nextId, now, crashes, upl, tree, req>>

\* ... and parses it: payload = parse_blender_output(line)
ParseLine ==
  /\ parsed.pc = "read"
  /\ parsed' = [parsed EXCEPT !.pc = "parsed",
                              !.payload = parse_blender_output(parsed.line)]
  /\ lastOp' = Other
  /\ UNCHANGED <<inbox, proc, done, failed, cur, stop_event, active_process, child,
                 wpc, w, cpc, cjob, accepted, nextId, now, crashes, upl, tree, req>>

NextParse == ReadLine \/ ParseLine

\* ------------------------------------------------------------------
\* Deleting the render images of an archived job (jobs.py,
\* delete_render_images).  tree holds one job directory of the done
\* archive: the subdirectories that exist and the files, each with the
\* directory it lies in and its name.
\* ------------------------------------------------------------------

NoTree == [exists |-> FALSE, dirs |-> {}, files |-> {}]

Root == <<>>
Renders == <<"renders">>
Preview == <<"preview">>
Frames == <<"renders", "frames">>

IMAGE_EXTS_SET ==
  { <<".", "p", "n", "g">>, <<".", "e", "x", "r">>, <<".", "j", "p", "g">>, <<".", "j", "p", "e", "g">>, <<".", "t", "i", "f">>, <<".", "t", "i", "f", "f">>, <<".", "b", "m", "p">> }

\* Path.suffix: the name from its last dot on, when that dot is neither the
\* first nor the last character
suffix(name) ==
  LET dots == {i \in 1..Len(name) : name[i] = "."}
      i == IF dots = {} THEN 0 ELSE CHOOSE k \in dots : \A j \in dots : j <= k
  IN IF 1 < i /\ i < Len(name) THEN SubSeq(name, i, Len(name)) ELSE <<>>

\* str.lower
lower(s) == [i \in 1..Len(s) |-> Lower(s[i])]

\* What finalize_job leaves in every archived directory: sidecar, manifest,
\* state file, log and the artifact.
KeepFiles ==
  { [dir |-> Root, name |-> <<"j", "o", "b", ".", "j", "s", "o", "n">>],
    [dir |-> Root, name |-> <<"m", "a", "n", "i", "f", "e", "s", "t", ".", "j", "s", "o", "n">>],
    [dir |-> Root, name |-> <<"s", "t", "a", "t", "e", ".", "j", "s", "o", "n">>],
    [dir |-> Root, name |-> <<"r", "e", "n", "d", "e", "r", ".", "l", "o", "g">>],
    [dir |-> Root, name |-> <<"s", "c", "e", "n", "e", ".", "b", "l", "e", "n", "d">>] }

\* What the render process may have written.
ImageFiles ==
  { [dir |-> Root, name |-> <<"t", "h", "u", "m", "b", ".", "p", "n", "g">>],
    [dir |-> Renders, name |-> <<"0", "0", "0", "1", ".", "p", "n", "g">>],
    [dir |-> Renders, name |-> <<"0", "0", "0", "2", ".", "E", "X", "R">>],
    [dir |-> Frames, name |-> <<"a", ".", "j", "p", "g">>],
    [dir |-> Preview, name |-> <<"p", "r", "e", "v", "i", "e", "w", ".", "j", "p", "e", "g">>] }
OtherFiles ==
  { [dir |-> Renders, name |-> <<"n", "o", "t", "e", "s", ".", "t", "x", "t">>],
    [dir |-> Preview, name |-> <<"l", "i", "v", "e", ".", "t", "m", "p">>],
    [dir |-> Preview, name |-> <<".", "p", "n", "g">>] }

\* the directories on the way to d
Ancestors(d) == {SubSeq(d, 1, k) : k \in 1..Len(d)}

Trees ==
  { t \in [exists : {TRUE}, dirs : SUBSET {Renders, Preview, Frames},
           files : {KeepFiles \cup fs : fs \in SUBSET (ImageFiles \cup OtherFiles)}] :
      \A f \in t.files : Ancestors(f.dir) \subseteq t.dirs }

\* not any(folder.iterdir()): neither a file nor a directory lies in folder
Empty(t, folder) ==
  /\ ~\E f \in t.files : f.dir = folder
  /\ ~\E d \in t.dirs : Len(d) = Len(folder) + 1 /\ SubSeq(d, 1, Len(folder)) = folder

\* Faulty variant of delete_render_images: everything below renders and
\* preview goes.
delete_render_outputs(t) ==
  LET files == {f \in t.files : f.dir = Root}
  IN [tree |-> [t EXCEPT !.files = files, !.dirs = {}],
      removed |-> Cardinality(t.files \ files)]

delete_render_images(t) ==
  LET images == {f \in t.files : lower(suffix(f.name)) \in IMAGE_EXTS_SET}
      files == t.files \ images
      left == [t EXCEPT !.files = files]
      empty == {folder \in {Renders, Preview} \cap t.dirs : Empty(left, folder)}
  IN [tree |-> [left EXCEPT !.dirs = t.dirs \ empty], removed |-> Cardinality(images)]

\* finalize_job has moved a job directory into the done archive
ArchiveTree ==
  /\ ~tree.exists
  /\ \E t \in Trees : tree' = t
  /\ lastOp' = Other
  /\ UNCHANGED <<inbox, proc, done, failed, cur, stop_event, active_process, child,
                 wpc, w, cpc, cjob, accepted, nextId, now, crashes, upl, parsed, req>>

\* POST /jobs/<job_id>/delete-images
delete_job_images ==
  /\ tree.exists
  /\ LET result == delete_render_images(tree)
     IN /\ tree' = result.tree
        /\ lastOp' = [op |-> "delete_images", removed |-> result.removed]
  /\ UNCHANGED <<inbox, proc, done, failed, cur, stop_event, active_process, child,
                 wpc, w, cpc, cjob, accepted, nextId, now, crashes, upl, parsed, req>>

\* ... for a job the done archive does not hold: 404
delete_job_images_missing ==
  /\ ~tree.exists
  /\ lastOp' = [op |-> "rejected"]
  /\ UNCHANGED <<inbox, proc, done, failed, cur, stop_event, active_process, child,
                 wpc, w, cpc, cjob, accepted, nextId, now, crashes, upl, parsed, tree, req>>

NextImages == ArchiveTree \/ delete_job_images \/ delete_job_images_missing

\* ------------------------------------------------- sidecars found on disk
\* What the "state" of a sidecar found beside an inbox blend may say; "" is
\* a sidecar without state, "ABSENT" (NoMeta) a missing or empty sidecar.
SidecarStates == {"", "PENDING", "QUEUED", "pending", "queued", "Queued",
                  "RENDERING", "DONE", "done", "FAILED", "CANCELED", "bogus"}

\* The sidecar contents ensure_queue_sidecar may read: any id, state,
\* root_id, attempt, queue_priority and created_at, each present or not.
SidecarContents ==
  {NoMeta} \cup
  {[NoMeta EXCEPT !.id = i, !.state = st, !.root_id = r, !.attempt = a,
                  !.queue_priority = p, !.created_at = c] :
     i \in {0, IdCap}, st \in SidecarStates, r \in {0, IdCap}, a \in {0, 3},
     p \in {None, 0}, c \in {None, 0}}

\* A blend and a sidecar of any content lie in the inbox (put there by hand,
\* by an older version or by an interrupted request).
PlaceFile(name, meta) ==
  /\ Booted
  /\ BlendNames(inbox) = {}
  /\ meta.id = 0 => nextId <= MaxJobs
  /\ inbox' = [inbox EXCEPT ![name] = [blend |-> TRUE, mtime |-> now, meta |-> meta]]
  /\ lastOp' = Other
  /\ UNCHANGED <<nextId, now, crashes, parsed, tree, req, upl>>
  /\ WorkerUnchanged /\ CancelUnchanged

\* GET /status: get_queue reconciles every inbox record.
status ==
  /\ Booted
  /\ \E q \in {get_queue(inbox, nextId, now)} :
        /\ inbox' = q.inbox
        /\ nextId' = q.nextId
  /\ lastOp' = [op |-> "status", before |-> {inbox[n].meta : n \in BlendNames(inbox)}]
  /\ UNCHANGED <<now, crashes, parsed, tree, req, upl>>
  /\ WorkerUnchanged /\ CancelUnchanged

NextSidecar ==
  \/ Recover
  \/ (\E name \in {0, 1}, meta \in SidecarContents : PlaceFile(name, meta))
  \/ status
  \/ (\E j \in Ids : delete_job(j))


\* ------------------------------------------------------------ specification
Init ==
  /\ inbox = [n \in Names |-> NoFile]
  /\ proc = [d \in Ids |-> NoDir]
  /\ done = [d \in Ids |-> NoDir]
  /\ failed = [d \in FailedDirs |-> NoDir]
  /\ cur = IdleJob
  /\ stop_event = FALSE
  /\ active_process = FALSE
  /\ child = NoChild
  /\ wpc = "boot"
  /\ w = NoLocals
  /\ cpc = "idle"
  /\ cjob = 0
  /\ accepted = {}
  /\ nextId = 1
  /\ now = 0
  /\ crashes = 0
  /\ upl = NoUpload
  /\ parsed = NoParse
  /\ tree = NoTree
  /\ req = NoRequest
  /\ lastOp = Other

\* The worker thread and the render process.
Worker(limit) ==
  \/ WPollIdle \/ WPollHead \/ WClaimGone \/ WClaimBlend \/ WClaimSidecar
  \/ WMark \/ WPublish \/ WClear \/ WSpawn \/ WSpawnFails
  \/ (\E rc \in {0, 1} : ChildExit(rc))
  \/ WStop \/ WStreamFails \/ WEof \/ WDecide(limit) \/ WFinMove \/ WAutoRetry
  \/ WPublishEnd \/ WClearEnd

\* The lifecycle: upload, start, delete, clear and retry requests interleaved
\* with the worker, the render process, cancel, crash and recovery.
Next ==
  \/ Recover
  \/ upload(0, "TURBO", MaxJobs)
  \/ (\E j \in 1..MaxJobs : start_job(j, ""))
  \/ (\E j \in 1..MaxJobs : delete_job(j))
  \/ (\E cancel_active \in BOOLEAN : clear_queue(cancel_active))
  \/ (\E d \in FailedDirs : retry_job(d, MaxJobs))
  \/ retry_all_failed(MaxJobs)
  \/ Worker(MaxJobs)
  \/ cancel_snapshot \/ cancel_set \/ cancel_terminate
  \/ Crash

Spec == Init /\ [][Next]_vars

\* The queue: uploads, starts and every ordering request while the worker
\* has nothing to pick up yet.
NextQueue ==
  \/ Recover
  \/ Tick
  \/ upload(0, "TURBO", MaxQueueJobs)
  \/ (\E j \in 1..MaxQueueJobs : start_job(j, ""))
  \/ start_all_jobs
  \/ (\E j \in 1..MaxQueueJobs, direction \in Directions : move_queue_job(j, direction))
  \/ (\E order \in Orders(1..MaxQueueJobs) : reorder_queue(order))
  \/ (\E j \in 1..MaxQueueJobs : delete_job(j))

SpecQueue == Init /\ [][NextQueue]_vars

\* Lineages: one upload, rendered and retried by hand and by the worker.
NextRetry ==
  \/ Recover
  \/ upload(0, "TURBO", MaxRetryUploads)
  \/ (\E j \in 1..MaxRetryUploads : start_job(j, ""))
  \/ (\E d \in FailedDirs : retry_job(d, MaxRetryJobs))
  \/ retry_all_failed(MaxRetryJobs)
  \/ WPollIdle \/ WPollHead \/ WClaimBlend \/ WClaimSidecar
  \/ WMark \/ WPublish \/ WClear \/ WSpawn \/ WSpawnFails
  \/ (\E rc \in {0, 1} : ChildExit(rc))
  \/ WStreamFails \/ WEof \/ WDecide(MaxRetryJobs) \/ WFinMove \/ WAutoRetry
  \/ WPublishEnd \/ WClearEnd

SpecRetry == Init /\ [][NextRetry]_vars

\* ------------------------------------------------- faults in the worker
\* shutil.move of the blend raises: the except block prints, sleeps and
\* continues; the job is still the head of the queue.
WClaimBlendFails ==
  /\ wpc = "claim"
  /\ inbox[w.filename].blend
  /\ wpc' = "poll"
  /\ w' = NoLocals
  /\ lastOp' = Other
  /\ UNCHANGED <<inbox, nextId, proc, done, failed, cur, stop_event, active_process, child>>
  /\ ExternalUnchanged /\ CancelUnchanged

\* shutil.move of the sidecar (or the write of the minimal payload) raises
\* after the blend has moved: the except block continues; the blend stays in
\* the processing directory without job.json.
WClaimSidecarFails ==
  /\ wpc = "claim_json"
  /\ wpc' = "poll"
  /\ w' = NoLocals
  /\ lastOp' = Other
  /\ UNCHANGED <<inbox, nextId, proc, done, failed, cur, stop_event, active_process, child>>
  /\ ExternalUnchanged /\ CancelUnchanged

\* write_json(processing_json, job_meta) raises outside every try block: the
\* exception leaves worker_loop and the worker thread ends.
WMarkFails ==
  /\ wpc = "mark"
  /\ wpc' = "dead"
  /\ lastOp' = Other
  /\ UNCHANGED <<inbox, nextId, proc, done, failed, cur, stop_event, active_process, child, w>>
  /\ ExternalUnchanged /\ CancelUnchanged

\* shutil.move in finalize_job raises: target_dir = None, the directory stays
\* in processing with the terminal state written, no automatic retry.
WFinMoveFails ==
  /\ wpc = "fin_move"
  /\ wpc' = "publish_end"
  /\ lastOp' = Other
  /\ UNCHANGED <<inbox, nextId, proc, done, failed, cur, stop_event, active_process, child, w>>
  /\ ExternalUnchanged /\ CancelUnchanged

WorkerFault ==
  WClaimBlendFails \/ WClaimSidecarFails \/ WMarkFails \/ WFinMoveFails

\* The steps the worker thread takes by itself once they are possible: all
\* of worker_loop but the faults, the exit of the render process and the
\* read of a line the process may never write.
WorkerOwn(limit) ==
  \/ WPollIdle \/ WPollHead \/ WClaimGone \/ WClaimBlend \/ WClaimSidecar
  \/ WMark \/ WPublish \/ WClear \/ WSpawn
  \/ WEof \/ WDecide(limit) \/ WFinMove \/ WAutoRetry
  \/ WPublishEnd \/ WClearEnd

\* The worker thread under faults: uploads, starts, deletes and cancel requests with
\* a worker that is scheduled fairly, a render process that is not obliged
\* to do anything, and faults that may strike at any time.
NextLive ==
  \/ Recover
  \/ upload(0, "TURBO", MaxJobs)
  \/ (\E j \in 1..MaxJobs : start_job(j, ""))
  \/ (\E j \in 1..MaxJobs : delete_job(j))
  \/ Worker(MaxJobs)
  \/ WorkerFault
  \/ cancel_snapshot \/ cancel_set \/ cancel_terminate

SpecLive == Init /\ [][NextLive]_vars /\ WF_vars(WorkerOwn(MaxJobs))

\* Uploads as they interleave with the worker: the two steps of the upload
\* request, starts, the requests that are turned down, the worker's render
\* cycle, crash and recovery.
NextUpload ==
  \/ Recover
  \/ upload_save(0, "TURBO", MaxJobs)
  \/ upload_write
  \/ (\E j \in 1..MaxJobs : start_job(j, ""))
  \/ invalid_request
  \/ (\E j \in 1..MaxJobs : delete_active(j))
  \/ (\E j \in 1..MaxJobs : move_not_queued(j))
  \/ (\E j \in 1..MaxJobs : start_not_pending(j))
  \/ WPollIdle \/ WPollHead \/ WClaimBlend \/ WClaimSidecar
  \/ WMark \/ WPublish \/ WClear \/ WSpawn \/ WSpawnFails
  \/ (\E rc \in {0, 1} : ChildExit(rc))
  \/ WStreamFails \/ WEof \/ WDecide(MaxJobs) \/ WFinMove \/ WAutoRetry
  \/ WPublishEnd \/ WClearEnd
  \/ Crash

SpecUpload == Init /\ [][NextUpload]_vars

\* The worker feeding output lines to the progress parser.
SpecParse == Init /\ [][NextParse]_vars

\* Deleting the images of archived jobs.
SpecImages == Init /\ [][NextImages]_vars

\* Submissions and the queue reads that reconcile what they find, the
\* reconciliation of one record taken in two steps.
NextReconcile ==
  \/ Recover
  \/ upload_save(0, "TURBO", MaxJobs + 1)
  \/ upload_write
  \/ (\E n \in Names : ensure_queue_sidecar_read(n))
  \/ write_back
  \/ status
  \/ (\E j \in 1..(MaxJobs + 1) : start_job(j, ""))

SpecReconcile == Init /\ [][NextReconcile]_vars

\* Submissions that choose their stored name while a second submission, a
\* retry or the worker runs.
NextNames ==
  \/ Recover
  \/ upload_name(0, "TURBO", MaxJobs)
  \/ upload_file_save
  \/ upload_write
  \/ upload(0, "TURBO", MaxJobs)
  \/ (\E j \in 1..MaxJobs : start_job(j, ""))
  \/ (\E d \in FailedDirs : retry_job(d, MaxJobs))
  \/ WPollIdle \/ WPollHead \/ WClaimBlend \/ WClaimSidecar
  \/ WMark \/ WPublish \/ WClear \/ WSpawn
  \/ (\E rc \in {0, 1} : ChildExit(rc))
  \/ WEof \/ WDecide(MaxJobs) \/ WFinMove \/ WAutoRetry
  \/ WPublishEnd \/ WClearEnd

SpecNames == Init /\ [][NextNames]_vars

\* The external requests on inbox records; those that write one sidecar or
\* read all before they write are taken in two steps.  One upload, its
\* retries, one two-step request.
ExternalRequest ==
  \/ upload(0, "TURBO", 1)
  \/ (\E j \in 1..MaxJobs : set_job_mode_read(j, "ARTIST"))
  \/ (\E j \in 1..MaxJobs : set_job_note_read(j, "note"))
  \/ (\E j \in 1..MaxJobs : start_job_read(j, ""))
  \/ (\E j \in 1..MaxJobs : move_queue_job_read(j, "top"))
  \/ write_back
  \/ start_all_jobs
  \/ (\E j \in 1..MaxJobs : reorder_queue(<<j>>))
  \/ (\E j \in 1..MaxJobs : delete_job(j))
  \/ (\E cancel_active \in BOOLEAN : clear_queue(cancel_active))
  \/ (\E d \in FailedDirs : retry_job(d, MaxJobs))
  \/ retry_all_failed(MaxJobs)

\* The requests interleaved with the worker, whose renders fail or are
\* cancelled (so that there is something to retry).
NextRequests ==
  \/ Recover
  \/ ExternalRequest
  \/ WPollIdle \/ WPollHead \/ WClaimGone \/ WClaimBlend \/ WClaimSidecar
  \/ WMark \/ WPublish \/ WClear \/ WSpawn
  \/ ChildExit(1)
  \/ WProgress
  \/ WStop \/ WEof \/ WDecide(MaxJobs) \/ WFinMove \/ WAutoRetry
  \/ WPublishEnd \/ WClearEnd

SpecRequests == Init /\ [][NextRequests]_vars

\* Shared Status as the worker publishes it: jobs rendered one after the
\* other with progress lines, cancel requests, crash and recovery; no request
\* removes an inbox file, so the worker always finds the blend it polled.
NextStatus ==
  \/ Recover
  \/ upload(0, "TURBO", MaxJobs)
  \/ (\E j \in 1..MaxJobs : start_job(j, ""))
  \/ WPollIdle \/ WPollHead \/ WClaimBlend \/ WClaimSidecar
  \/ WMark \/ WPublish \/ WClear \/ WSpawn \/ WSpawnFails
  \/ (\E rc \in {0, 1} : ChildExit(rc))
  \/ WStop \/ WStreamFails \/ WEof \/ WDecide(MaxJobs) \/ WFinMove \/ WAutoRetry
  \/ WPublishEnd \/ WClearEnd
  \/ WProgress
  \/ cancel_snapshot \/ cancel_set \/ cancel_terminate
  \/ Crash

SpecStatus == Init /\ [][NextStatus]_vars

\* Reconciliation of whatever sidecar lies beside an inbox blend.
SpecSidecar == Init /\ [][NextSidecar]_vars


\* ------------------------------------------------------------------ claims
\* Where a sidecar with the given state lies on disk.
RecordsIn(state) ==
  {<<"inbox", n>> : n \in {x \in Names : inbox[x].meta.state = state}}
    \cup {<<"processing", d>> : d \in {x \in Ids : proc[x].meta.state = state}}
    \cup {<<"done", d>> : d \in {x \in Ids : done[x].meta.state = state}}
    \cup {<<"failed", d>> : d \in {x \in FailedDirs : failed[x].meta.state = state}}

Archived(d) ==
  IF done[d].dir THEN done[d].meta
  ELSE IF failed[d].dir THEN failed[d].meta
  ELSE NoMeta

\* C2: a job whose cancel request was accepted (it saw the status RENDERING
\* and returned ok) is finalized as CANCELED, never as DONE or FAILED.
C2_CancelYieldsCanceled ==
  \A d \in accepted :
     Archived(d).state # "ABSENT" => Archived(d).state = "CANCELED"

\* C3: when the cancel request returns ok the render process of the job is
\* no longer running.
C3_CancelReturnsAfterStop ==
  lastOp.op = "cancel" => child.st # "running"

\* The job artifacts (blend files) on disk.
ArtifactCount ==
  Cardinality({n \in Names : inbox[n].blend})
    + Cardinality({d \in Ids : proc[d].blend})
    + Cardinality({d \in Ids : done[d].blend})
    + Cardinality({d \in FailedDirs : failed[d].blend})

\* C4: neither a crash nor the recovery pass that follows it changes the
\* number of artifacts across inbox, processing, done and failed archive.
C4_CrashRecoveryKeepsArtifacts ==
  [][lastOp'.op \in {"crash", "recover"} => ArtifactCount' = ArtifactCount]_vars

\* Recovery has just restored a job that was RENDERING when the process died.
C4_Witness ==
  /\ lastOp.op = "recover"
  /\ lastOp.rendering # {}
  /\ ArtifactCount > 0

\* Every sidecar on disk.
AllMetas ==
  {inbox[n].meta : n \in Names} \cup {proc[d].meta : d \in Ids}
    \cup {done[d].meta : d \in Ids} \cup {failed[d].meta : d \in FailedDirs}

\* C5: among the records of one root_id at most one was created by the
\* automatic retry.
C5_OneAutoRetryPerRoot ==
  \A root \in Ids :
     Cardinality({m.id : m \in {x \in AllMetas :
                     x.root_id = root /\ x.auto_retry_of # 0}}) <= 1

\* C6: the records of one root_id have pairwise distinct attempt values that
\* increase strictly in creation order (ids are handed out in that order).
C6_AttemptsIncrease ==
  \A m1, m2 \in AllMetas :
     (m1.root_id # 0 /\ m1.root_id = m2.root_id /\ m1.id < m2.id)
        => m1.attempt < m2.attempt

QueuedNames(inb) == {n \in BlendNames(inb) : inb[n].meta.state = "QUEUED"}

\* The order the queue is to have: queue_priority, a missing one last, then
\* queued_at.
PriorityThenQueuedAt(m) ==
  <<IF m.queue_priority = None THEN Inf ELSE m.queue_priority, m.queued_at>>

QueuedContiguous ==
  \E Q \in {QueuedNames(inbox)} :
     /\ {inbox[n].meta.queue_priority : n \in Q} = 0..(Cardinality(Q) - 1)
     /\ \A a, b \in Q : a # b => inbox[a].meta.queue_priority # inbox[b].meta.queue_priority

PriorityOf(id) == inbox[find_input_job(inbox, id)].meta.queue_priority

\* C8: after a successful move the priorities of the QUEUED records are
\* exactly 0..n-1; moving the last of three to the top gives it 0 and the
\* other two 1 and 2 in their old order.
C8_MoveContiguous ==
  lastOp.op = "move" =>
     /\ QueuedContiguous
     /\ (Len(lastOp.before) = 3 /\ lastOp.direction = "top" /\ lastOp.id = lastOp.before[3])
           => /\ PriorityOf(lastOp.before[3]) = 0
              /\ PriorityOf(lastOp.before[1]) = 1
              /\ PriorityOf(lastOp.before[2]) = 2

\* The last of three queued jobs has just been moved to the top.
C8_Witness ==
  /\ lastOp.op = "move"
  /\ Len(lastOp.before) = 3
  /\ lastOp.direction = "top"
  /\ lastOp.id = lastOp.before[3]

\* C9: after reorder_queue the priorities of the QUEUED records are exactly
\* 0..n-1, also when the inbox holds PENDING records.
C9_ReorderContiguous ==
  lastOp.op = "reorder" => QueuedContiguous

\* C10: after start_all_jobs no inbox record is PENDING and the priorities of
\* the QUEUED records are exactly 0..n-1.
C10_StartAllContiguous ==
  lastOp.op = "start_all" =>
     /\ \A n \in BlendNames(inbox) : inbox[n].meta.state = "QUEUED"
     /\ QueuedContiguous

\* The order of the job states.
StateRank(state) ==
  CASE state = "PENDING" -> 1
    [] state = "QUEUED" -> 2
    [] state = "RENDERING" -> 3
    [] state \in {"DONE", "FAILED", "CANCELED"} -> 4
    [] OTHER -> 0

\* From this state to the next no sidecar of any id holds an earlier state
\* than a sidecar of that id held before.
NoRegression ==
  \A m \in AllMetas : \A n \in AllMetas' :
     (m.id # 0 /\ m.id = n.id /\ m.state # "ABSENT" /\ n.state # "ABSENT")
        => StateRank(m.state) <= StateRank(n.state)

C12_LocationMatchesState ==
  /\ \A n \in Names : inbox[n].meta.state \in {"ABSENT", "PENDING", "QUEUED"}
  /\ \A d \in Ids : proc[d].meta.state \in {"ABSENT", "RENDERING"}
  /\ \A d \in Ids : done[d].meta.state \in {"ABSENT", "DONE"}
  /\ \A d \in FailedDirs : failed[d].meta.state \in {"ABSENT", "FAILED", "CANCELED"}

\* C15: when the cancellation flag is not set at the end of a render the
\* terminal state is DONE exactly when the exit code is 0, else FAILED with
\* a reason that holds the exit code; the recorded returncode is the exit
\* code of the process.
C15_ExitCodeDecides ==
  (wpc = "fin_move" /\ w.state # "CANCELED") =>
     /\ w.state \in {"DONE", "FAILED"}
     /\ w.state = "DONE" <=> w.rc = 0
     /\ proc[w.id].meta.state = w.state
     /\ proc[w.id].meta.returncode = w.rc
     /\ w.state = "FAILED" =>
           proc[w.id].meta.reason = [text |-> "Render fehlgeschlagen", rc |-> w.rc]
     /\ ~w.exc => (child.st = "exited" /\ w.rc = child.rc)
     /\ w.exc => w.rc = None

\* A render that was not cancelled has ended with exit code 1.
C15_Witness ==
  /\ wpc = "fin_move"
  /\ w.state = "FAILED"
  /\ ~w.exc
  /\ child.st = "exited" /\ child.rc = 1

\* C16: when spawning the process or streaming its output raises and no
\* cancellation was requested, the job is finalized FAILED with return code
\* -1 and a reason that carries the text of the fault.
C16_FaultTextRecorded ==
  (wpc = "fin_move" /\ w.exc /\ w.state # "CANCELED") =>
     /\ proc[w.id].meta.state = "FAILED"
     /\ proc[w.id].meta.returncode = None
     /\ proc[w.id].meta.reason.text = "Worker Ausnahme"

\* C13: the worker loop never terminates and never stalls on one job: after
\* a job has failed for any reason the loop returns to polling and a further
\* QUEUED job is eventually claimed and rendered.
C13_WorkerKeepsRunning == wpc # "dead"

\* C14: once the cancellation flag is set while the render process runs,
\* the worker eventually leaves the streaming phase, whatever the process
\* does.
C14_CancelEndsStreaming ==
  (stop_event /\ wpc = "stream" /\ child.st = "running") ~> (wpc # "stream")

\* The records a step creates as successors: sidecars of the inbox whose id
\* no sidecar had before the step and that name a predecessor.
NewSuccessors ==
  {m \in {inbox'[n].meta : n \in Names} :
      /\ m.state # "ABSENT"
      /\ m.retry_of # 0
      /\ m.id \notin {x.id : x \in AllMetas}}

\* C17: every successor a retry path creates has the root_id of its
\* predecessor (the predecessor's id when it has none), the predecessor's
\* attempt plus 1 (a predecessor without attempt counts as attempt 1) and
\* retry_of equal to the predecessor's id (the name of its archive
\* directory when the archived sidecar has none).
C17_SuccessorLineage ==
  [][\A m \in NewSuccessors :
        /\ m.retry_of \in FailedDirs
        /\ failed[m.retry_of].dir
        /\ LET p == failed[m.retry_of].meta
               pid == IF p.id # 0 THEN p.id ELSE m.retry_of
           IN /\ m.retry_of = pid
              /\ m.root_id = (IF p.root_id # 0 THEN p.root_id ELSE pid)
              /\ m.attempt = (IF p.attempt = 0 THEN 1 ELSE p.attempt) + 1
              /\ m.id # pid]_vars

\* A second-generation successor is queued: its predecessor is itself a
\* successor, and root and attempt carried over.
C17_Witness ==
  \E n \in BlendNames(inbox) :
     LET m == inbox[n].meta
     IN /\ m.retry_of \in Ids
        /\ failed[m.retry_of].dir
        /\ failed[m.retry_of].meta.retry_of # 0
        /\ m.root_id = failed[m.retry_of].meta.root_id
        /\ m.attempt = 3

\* The ids of the records that name the archive directory d as predecessor.
SuccessorsOf(d) == {m.id : m \in {x \in AllMetas : x.state # "ABSENT" /\ x.retry_of = d}}

\* C18: every archived FAILED record has at most one successor, whatever
\* retry operations were run.
C18_AtMostOneSuccessor ==
  \A d \in FailedDirs :
     (failed[d].dir /\ failed[d].meta.state = "FAILED")
        => Cardinality(SuccessorsOf(d)) <= 1

\* C19: no two distinct QUEUED records have the same queue_priority and the
\* same queued_at.
C19_NoTies ==
  \A n1 \in QueuedNames(inbox), n2 \in QueuedNames(inbox) :
     n1 # n2 =>
        \/ inbox[n1].meta.queue_priority # inbox[n2].meta.queue_priority
        \/ inbox[n1].meta.queued_at # inbox[n2].meta.queued_at

\* The processing directories that hold both job.blend and job.json.
Restorable == {d \in Ids : proc[d].dir /\ proc[d].blend /\ proc[d].meta.state # "ABSENT"}

\* C20: the recovery pass puts every processing directory that holds both
\* blend and sidecar back into the inbox, under a name that was free, with
\* state QUEUED, the same id, attempt plus 1 (a sidecar without attempt
\* counts as attempt 1) and root_id defaulted to the id, and removes the
\* directory; afterwards the processing area holds no directory.
C20_RecoveryRestores ==
  [][lastOp'.op = "recover" =>
       /\ \A d \in Restorable :
             \E n \in Names :
                /\ ~inbox[n].blend
                /\ inbox'[n].blend
                /\ inbox'[n].meta =
                     [proc[d].meta EXCEPT
                        !.stored_filename = n,
                        !.state = "QUEUED",
                        !.attempt = (IF @ = 0 THEN 1 ELSE @) + 1,
                        !.root_id = IF @ = 0 THEN proc[d].meta.id ELSE @]
       /\ \A d \in Ids : ~proc'[d].dir /\ ~proc'[d].blend]_vars

\* Recovery has just put back a job of attempt 1 that the crash had caught
\* in processing: it is QUEUED in the inbox with attempt 2.
C20_Witness ==
  /\ lastOp.op = "recover"
  /\ \E n \in BlendNames(inbox) :
        /\ inbox[n].meta.id \in lastOp.rendering
        /\ inbox[n].meta.state = "QUEUED"
        /\ inbox[n].meta.attempt = 2
        /\ inbox[n].meta.root_id = inbox[n].meta.id
  /\ \A d \in Ids : ~proc[d].dir

\* The processing directories that lack job.blend or job.json.
Broken == {d \in Ids : proc[d].dir /\ (~proc[d].blend \/ proc[d].meta.state = "ABSENT")}

\* C21: the recovery pass moves every processing directory that lacks the
\* blend or the sidecar whole into the failed archive, under a name the
\* archive did not hold; it deletes nothing of it and changes no entry the
\* archive already had.
C21_QuarantineKeepsAll ==
  [][lastOp'.op = "recover" =>
       /\ \A d \in Broken :
             /\ ~proc'[d].dir
             /\ \E x \in FailedDirs : ~failed[x].dir /\ failed'[x] = proc[d]
       /\ \A x \in FailedDirs : failed[x].dir => failed'[x] = failed[x]
       /\ ArtifactCount' = ArtifactCount]_vars

\* Recovery has just quarantined a directory that held a blend but no sidecar.
C21_Witness ==
  /\ lastOp.op = "recover"
  /\ \E d \in Ids :
        /\ failed[0 - d].dir
        /\ failed[0 - d].blend
        /\ failed[0 - d].meta.state = "ABSENT"
        /\ ~proc[d].dir

\* C22: the recovery pass runs exactly once per process start, and it is
\* over before the worker polls the queue and before any request is served:
\* from a freshly started process the only step is the recovery pass (or the
\* death of the process), and the recovery pass is taken from nowhere else.
C22_RecoveryFirstAndOnce ==
  [][/\ wpc = "boot" => lastOp'.op \in {"recover", "crash"}
     /\ lastOp'.op = "recover" => (wpc = "boot" /\ wpc' = "poll")
     /\ lastOp'.op = "crash" => wpc' = "boot"]_vars

\* The process has been restarted over a non-empty inbox and its recovery
\* pass is over; the worker is about to poll for the first time.
C22_Witness ==
  /\ lastOp.op = "recover"
  /\ crashes > 0
  /\ wpc = "poll"
  /\ BlendNames(inbox) # {}

\* The ids of the sidecars on disk.
AllIds == {m.id : m \in AllMetas} \ {0}

\* C23: a submission that returns ok has created one inbox record: the blend
\* with a PENDING sidecar under an id no sidecar had before; a blend only
\* enters processing from an inbox record that is QUEUED.
C23_UploadPendingNotRunnable ==
  [][/\ (upl.pc = "write" /\ upl'.pc = "idle" /\ lastOp'.op # "crash") =>
          /\ inbox'[upl.name].blend
          /\ inbox'[upl.name].meta.state = "PENDING"
          /\ inbox'[upl.name].meta.id \notin AllIds
     /\ \A d \in Ids :
          (~proc[d].blend /\ proc'[d].blend) =>
             \E n \in Names : /\ inbox[n].blend /\ ~inbox'[n].blend
                              /\ inbox[n].meta.state = "QUEUED"]_vars

OnlyRepaired(m, m2) ==
  /\ [m2 EXCEPT !.id = 0, !.root_id = 0, !.attempt = 0, !.created_at = None,
                !.state = "", !.queue_priority = None, !.stored_filename = None]
       = [m EXCEPT !.id = 0, !.root_id = 0, !.attempt = 0, !.created_at = None,
                   !.state = "", !.queue_priority = None, !.stored_filename = None]
  /\ m.id # 0 => m2.id = m.id
  /\ m.root_id # 0 => m2.root_id = m.root_id
  /\ m.attempt # 0 => m2.attempt = m.attempt
  /\ m.created_at # None => m2.created_at = m.created_at
  /\ m.state \in INPUT_JOB_STATES => m2.state = m.state
  /\ m.queue_priority # None => m2.queue_priority = m.queue_priority
  /\ m.stored_filename # None => m2.stored_filename = m.stored_filename

NewlyQueued ==
  {n \in Names : /\ inbox[n].blend /\ inbox'[n].blend
                 /\ inbox[n].meta.state \in {"ABSENT", "PENDING"}
                 /\ inbox[n].meta.queue_priority = None
                 /\ inbox'[n].meta.state = "QUEUED"}

\* The inbox names that are QUEUED before and after a step.
StillQueued ==
  {n \in Names : /\ inbox[n].blend /\ inbox'[n].blend
                 /\ inbox[n].meta.state = "QUEUED"
                 /\ inbox'[n].meta.state = "QUEUED"}

\* C25: a job that is moved from PENDING to QUEUED without an explicit
\* priority comes after every job that is QUEUED already in the order of
\* get_render_queue: the queue is FIFO as long as nothing reorders it.
C25_Fifo ==
  [][\A n \in NewlyQueued : \A k \in StillQueued :
        LET queue == get_render_queue(inbox')
        IN IndexOf(queue, k) < IndexOf(queue, n)]_vars

C27_FinalizeArchives ==
  [][(wpc = "fin_move" /\ proc[w.id].dir /\ ~proc'[w.id].dir) =>
        /\ w.state \in {"DONE", "FAILED", "CANCELED"}
        /\ IF w.state = "DONE"
           THEN /\ ~done[w.id].dir
                /\ done' = [done EXCEPT ![w.id] = proc[w.id]]
                /\ failed' = failed
           ELSE /\ ~failed[w.id].dir
                /\ failed' = [failed EXCEPT ![w.id] = proc[w.id]]
                /\ done' = done
        /\ proc[w.id].meta.state = w.state]_vars

\* A canceled job has just been archived among the failed ones.
C27_Witness ==
  \E d \in Ids :
     /\ wpc = "publish_end"
     /\ w.id = d
     /\ w.state = "CANCELED"
     /\ failed[d].dir
     /\ failed[d].meta.state = "CANCELED"
     /\ ~proc[d].dir
     /\ ~done[d].dir

\* C28: the parser maps "Sample 512/4096" to sample_current 512,
\* sample_total 4096 and progress 12, "Fra: 3" to frame 3 without sample or
\* tile fields, "[TILES] 10/40" to tile_current 10 and tile_total 40, a line
\* matching no pattern to an empty update, and every "Sample c/t" line to
\* progress floor(100 * c / max(t, 1)) clamped to 0..100.
C28_ParserMaps ==
  parsed.pc = "parsed" =>
    LET p == parsed.payload
    IN /\ parsed.line = LineSample512 =>
             p.sample_current = 512 /\ p.sample_total = 4096 /\ p.progress = 12
       /\ parsed.line = LineFra3 =>
             /\ p.frame = 3
             /\ p.sample_current = None /\ p.sample_total = None /\ p.progress = None
             /\ p.tile_current = None /\ p.tile_total = None
       /\ parsed.line = LineTiles => p.tile_current = 10 /\ p.tile_total = 40
       /\ parsed.line \in UnrelatedLines => p = EmptyPayload
       /\ \A c \in 0..MaxSample, t \in SampleTotals :
             parsed.line = SampleLine(c, t) =>
                p.progress = max(0, min((100 * c) \div max(t, 1), 100))

\* The same with the one line of the modelled range left out on which the
\* floating-point product falls below the exact quotient.
C28_ParserMapsButOne ==
  parsed.pc = "parsed" =>
    LET p == parsed.payload
    IN /\ parsed.line = LineSample512 =>
             p.sample_current = 512 /\ p.sample_total = 4096 /\ p.progress = 12
       /\ parsed.line = LineFra3 =>
             /\ p.frame = 3
             /\ p.sample_current = None /\ p.sample_total = None /\ p.progress = None
             /\ p.tile_current = None /\ p.tile_total = None
       /\ parsed.line = LineTiles => p.tile_current = 10 /\ p.tile_total = 40
       /\ parsed.line \in UnrelatedLines => p = EmptyPayload
       /\ \A c \in 0..MaxSample, t \in SampleTotals :
             parsed.line = SampleLine(c, t) =>
                /\ p.sample_current = c /\ p.sample_total = max(t, 1)
                /\ IF c = 29 /\ t = 50 THEN p.progress = 57
                   ELSE p.progress = max(0, min((100 * c) \div max(t, 1), 100))

\* C29: deleting the render images of an archived job removes only files
\* with an image extension, keeps sidecar, manifest, state file, log and
\* artifact, adds nothing, and removes the renders and the preview folder
\* exactly when nothing is left in them; other folders stay.
C29_OnlyImagesGo ==
  [][lastOp'.op = "delete_images" =>
        /\ tree'.files \subseteq tree.files
        /\ (tree.files \ tree'.files) \subseteq ImageFiles
        /\ KeepFiles \subseteq tree'.files
        /\ tree'.dirs \subseteq tree.dirs
        /\ \A folder \in {Renders, Preview} \cap tree.dirs :
              folder \notin tree'.dirs <=>
                 /\ ~\E f \in tree'.files : f.dir = folder
                 /\ ~\E d \in tree.dirs : Len(d) = 2 /\ d[1] = folder[1]
        /\ Frames \in tree.dirs => Frames \in tree'.dirs
        /\ lastOp'.removed = Cardinality(tree.files \ tree'.files)]_vars

\* Images have been deleted: the renders folder held nothing else and is
\* gone, the preview folder keeps a file that is no image.
C29_Witness ==
  /\ lastOp.op = "delete_images"
  /\ lastOp.removed >= 2
  /\ Renders \notin tree.dirs
  /\ Preview \in tree.dirs
  /\ \E f \in tree.files : f.dir = Preview
  /\ KeepFiles \subseteq tree.files

\* The lineage fields of a record.
Lineage(m) ==
  [root_id |-> m.root_id, attempt |-> m.attempt, retry_of |-> m.retry_of,
   auto_retry_of |-> m.auto_retry_of, override_off |-> m.override_off]

\* C30: the claim is atomic for the requests: between the move of the
\* artifact and the move of the sidecar no step but the worker's touches the
\* sidecar left in the inbox or the processing directory, and the sidecar
\* that arrives in processing is the job's own, with the lineage fields it
\* had in the inbox.
C30_ClaimAtomic ==
  [][/\ (wpc = "claim_json" /\ wpc' = "claim_json") =>
           /\ inbox'[w.filename] = inbox[w.filename]
           /\ proc'[w.id] = proc[w.id]
     /\ (wpc = "claim_json" /\ wpc' = "mark") =>
           /\ inbox[w.filename].meta.id = w.id
           /\ Lineage(proc'[w.id].meta) = Lineage(inbox[w.filename].meta)]_vars

\* The requests that work on the queue listing (delete, clear, start) leave
\* the half-claimed record alone: the listing shows artifacts only.
C30_QueueRequestsKeepOff ==
  [][(wpc = "claim_json" /\ wpc' = "claim_json" /\ nextId' = nextId
        /\ ~inbox[w.filename].blend) =>
           /\ inbox'[w.filename] = inbox[w.filename]
           /\ proc'[w.id] = proc[w.id]]_vars

\* The processing directories that hold the artifact of a claimed job.
Claimed == {d \in Ids : proc[d].dir /\ proc[d].blend}

\* C31: once the claim has moved the artifact into the processing directory,
\* a crash at any later point of the handling followed by the recovery pass
\* returns the job to the inbox as a QUEUED record with the same id.
C31_CrashReturnsClaimed ==
  [][lastOp'.op = "recover" =>
       \A d \in Claimed :
          \E n \in Names :
             /\ inbox'[n].blend
             /\ inbox'[n].meta.id = d
             /\ inbox'[n].meta.state = "QUEUED"]_vars

\* The positions of the worker between the clear of stop_event at the start
\* of a job and the decision on its terminal state: a flag set here is still
\* set when the worker decides, so the job is finalized CANCELED.
FlagDecides == {"spawn", "stream", "decide"}

\* C37: a cancel request affects only the job that was RENDERING when it
\* read Shared Status: it sets stop_event where the flag reaches the decision
\* of a job only if that job is the one it read, and it sends the
\* termination signal only to the render process of the job it read.
C37_CancelOnlyItsJob ==
  [][/\ (cpc = "set" /\ cpc' = "term" /\ wpc \in FlagDecides /\ ~stop_event)
           => w.id = cjob
     /\ (cpc = "term" /\ cpc' = "idle" /\ child'.term /\ ~child.term)
           => w.id = cjob]_vars

\* C39: the active-process handle is non-null only while Shared Status shows
\* RENDERING for the job that owns the process, and it is null again when
\* the worker is about to publish the post-job status, also after a fault
\* in spawning or streaming.
C39_HandleOnlyWhileRendering ==
  /\ active_process => (cur.status = "RENDERING" /\ cur.id = w.id /\ wpc = "stream")
  /\ wpc \in {"decide", "fin_move", "auto_retry", "publish_end"} => ~active_process

\* Streaming has raised: the worker is about to publish the post-job status
\* and the handle is null.
C39_Witness ==
  /\ wpc = "publish_end"
  /\ w.exc
  /\ child = NoChild
  /\ cur.status = "RENDERING"
  /\ ~active_process

\* The ids of the runnable jobs in scheduling order.
RenderIds(inb) == IdsOf(inb, get_render_queue(inb))

\* The ids a reorder request lists that are QUEUED, each once, in the order
\* given.
ListedQueued(order, queued) ==
  SelectSeq([i \in 1..Len(order) |->
               IF InSeq(queued, order[i]) /\ \A k \in 1..(i - 1) : order[k] # order[i]
               THEN order[i] ELSE 0],
            LAMBDA j : j # 0)

\* C40: an explicit reorder puts the QUEUED jobs it lists first, in the order
\* given (unknown and repeated ids ignored), and leaves the QUEUED jobs it
\* does not list behind them in the relative order get_render_queue gave
\* them before the call.
C40_PartialReorder ==
  [][\A order \in Orders(1..MaxQueueJobs) :
        reorder_queue(order) =>
           LET before == RenderIds(get_queue(inbox, nextId, now).inbox)
               listed == ListedQueued(order, before)
           IN RenderIds(inbox') =
                 listed \o SelectSeq(before, LAMBDA j : ~InSeq(listed, j))]_vars

\* The record ensure_queue_sidecar persists for the stored record m.
ReconciledFrom(m, r) ==
  /\ r.state \in {"PENDING", "QUEUED"}
  /\ r.state = (IF upper(m.state) \in {"PENDING", "QUEUED"} THEN upper(m.state) ELSE "PENDING")
  /\ r.id # 0 /\ r.root_id # 0 /\ r.attempt # 0
  /\ r.state = "QUEUED" => r.queue_priority # None
  /\ m.id # 0 => r.id = m.id

\* C34: after reconciliation of an inbox record, whatever its sidecar held
\* (nothing included), the persisted record is PENDING or QUEUED (PENDING
\* when the stored state was neither), has an id, a root_id and an attempt,
\* has a queue_priority when it is QUEUED, and keeps the id it had.
C34_ReconcileRepairs ==
  [][lastOp'.op = "status" =>
       \A n \in BlendNames(inbox) :
          /\ inbox'[n].blend
          /\ ReconciledFrom(inbox[n].meta, inbox'[n].meta)]_vars

\* A sidecar that said RENDERING and had no id has just been reconciled: it
\* is PENDING under a fresh id.
C34_Witness ==
  /\ lastOp.op = "status"
  /\ \E m \in lastOp.before : m.state = "RENDERING" /\ m.id = 0 /\ m.attempt = 0
  /\ \E n \in BlendNames(inbox) :
        /\ inbox[n].meta.state = "PENDING"
        /\ inbox[n].meta.id # 0
        /\ inbox[n].meta.attempt = 1

\* C33: every snapshot of Shared Status is consistent: the status is
\* RENDERING exactly when a job id is on show, and the progress values shown
\* beside a job id are reset or come from the output of that job.
C33_SnapshotConsistent ==
  /\ cur.status = "RENDERING" <=> cur.id # 0
  /\ cur.id # 0 => cur.progress \in {0, cur.id}

\* The second job is on show with progress parsed from its own output; the
\* first job is archived.
C33_Witness ==
  /\ cur.status = "RENDERING"
  /\ cur.id = 2
  /\ cur.progress = 2
  /\ \E d \in Ids : d # 2 /\ (done[d].dir \/ failed[d].dir)

\* C32: no external request (mode, note, move, reorder, start, start-all,
\* delete, clear, retry, retry-all, upload) changes a file of a processing
\* directory or the progress fields of Shared Status, not even the write of
\* a request that read the sidecar before the worker claimed the job.
C32_RequestsLeaveProcessing ==
  [][(proc' # proc \/ cur' # cur) => ~ExternalRequest]_vars

\* A request that read the sidecar of a job in the inbox has just written it
\* back while the job lies in its processing directory with progress on
\* show: the write went to the inbox path.
C32_Witness ==
  /\ lastOp.op = "write_back"
  /\ cur.status = "RENDERING"
  /\ cur.progress = cur.id
  /\ proc[cur.id].dir /\ proc[cur.id].blend
  /\ \E n \in Names : ~inbox[n].blend /\ inbox[n].meta.id = cur.id

\* C38: under any interleaving of requests on one inbox record, a record
\* that is QUEUED stays QUEUED, with its queued_at and a queue_priority,
\* as long as its artifact lies in the inbox under the same id: no write of
\* another request puts it back to PENDING or drops the two values.
C38_QueuedStaysQueued ==
  [][\A n \in Names :
        (/\ inbox[n].blend /\ inbox[n].meta.state = "QUEUED"
         /\ inbox'[n].blend /\ inbox'[n].meta.id = inbox[n].meta.id)
        => /\ inbox'[n].meta.state = "QUEUED"
           /\ inbox[n].meta.queued_at # None => inbox'[n].meta.queued_at # None
           /\ inbox[n].meta.queue_priority # None => inbox'[n].meta.queue_priority # None]_vars

\* C35: submissions that run concurrently under one original name never get
\* the same stored name: when a submission saves its artifact, no artifact
\* lies under its name (it overwrites no other job's file), and its name is
\* not the filename of the job that is RENDERING.
C35_NamesNeverShared ==
  [][(upl.pc = "save" /\ upl'.pc = "write") =>
        /\ ~inbox[upl.name].blend
        /\ ~(cur.status = "RENDERING" /\ cur.filename = upl.name)]_vars

\* C36: the id a submission returned stays the id of its job: once the
\* submission that stored an artifact has completed, the inbox record of
\* that artifact carries the id the submission wrote, whatever queue reads
\* ran meanwhile; no later step changes it while the artifact is there.
C36_ReturnedIdStays ==
  [][\A n \in Names :
        (/\ inbox[n].blend /\ inbox'[n].blend
         /\ inbox[n].meta.id # 0
         /\ ~(upl.pc = "write" /\ upl.name = n))
        => inbox'[n].meta.id = inbox[n].meta.id]_vars

====
